---- MODULE Spec2Model ----
(***************************************************************************)
(* Model of the Mirror tracking-and-control pipeline.                      *)
(*                                                                         *)
(* Part 1: core/scaler_crop_controller.py (ScalerCropController) together  *)
(* with its callers: the crop update thread (_update_loop), the face       *)
(* detection thread (CameraFaceProcessor._processing_loop) and the voice   *)
(* command thread (DisplayProcessor.set_zoom_level).                       *)
(*                                                                         *)
(* Numbers.  The program computes with Python floats on normalized frame   *)
(* coordinates.  The model uses fixed point: a normalized value v is the   *)
(* integer v * UNIT, and a product with a decimal factor is rounded to the *)
(* nearest integer (ties to even, as IEEE-754 does).  Ratios are kept as   *)
(* integer numerators over TENTHS or HUNDREDTHS.  Centres are kept doubled *)
(* (2*x + w) so that the half in x + w/2 is exact.                         *)
(***************************************************************************)
EXTENDS Integers, Sequences, FiniteSets, TLC

UNIT == 100 * 100
TENTHS == 2 * 5
HUNDREDTHS == 10 * 10

\* Bounds of the model
MaxTicks == 3
MaxCalls == 3
ConvergeBound == 30

None == <<>>

Abs(a) == IF a < 0 THEN -a ELSE a
Max(a, b) == IF a >= b THEN a ELSE b
Min(a, b) == IF a <= b THEN a ELSE b

\* Python int(n / d) for d > 0: truncation toward zero
PyInt(n, d) == IF n >= 0 THEN n \div d ELSE -((-n) \div d)

\* n / d for d > 0 rounded to the nearest integer, ties to even
RoundDiv(n, d) ==
    LET q == n \div d
        r == n - q * d
    IN  IF 2 * r < d THEN q
        ELSE IF 2 * r > d THEN q + 1
        ELSE IF q % 2 = 0 THEN q ELSE q + 1

\* a^2 + b^2 > c^2 for c >= 0, without computing a square larger than c^2
SumSqExceeds(a, b, c) ==
    IF Abs(a) > c \/ Abs(b) > c THEN TRUE
    ELSE a * a + b * b > c * c

----------------------------------------------------------------------------
\* Types and inputs

ZoomLevel == {"WIDE", "FACE", "EYES", "LIPS"}

\* hardware_zoom_ratios, in tenths
hardware_zoom_ratios ==
    [z \in ZoomLevel |->
        CASE z = "WIDE" -> 12
          [] z = "FACE" -> 10
          [] z = "EYES" -> 6
          [] z = "LIPS" -> 5]

smoothing_factor == 15
movement_threshold_ratio == 1

\* ScalerCropMaximum[2], ScalerCropMaximum[3]
sensor_width == 4056
sensor_height == 3040

\* The four landmarks of a face: left eye, right eye, nose, mouth
LandmarksOf(bbox) ==
    << <<bbox[1] + bbox[3] \div 4,       bbox[2] + bbox[4] \div 4>>,
       <<bbox[1] + (3 * bbox[3]) \div 4, bbox[2] + bbox[4] \div 4>>,
       <<bbox[1] + bbox[3] \div 2,       bbox[2] + bbox[4] \div 2>>,
       <<bbox[1] + bbox[3] \div 2,       bbox[2] + (3 * bbox[4]) \div 4>> >>

FaceData(bbox) == [bbox |-> bbox, landmarks |-> LandmarksOf(bbox)]

NoFaceData == [bbox |-> <<>>, landmarks |-> <<>>]

\* bbox = [xmin, ymin, width, height], every coordinate in [0, UNIT]
BBoxes ==
    { <<4000, 4000, 2000, 2000>>,
      <<4100, 4000, 2000, 2000>>,
      <<1000, 5000, 3000, 4000>>,
      <<0, 0, 10000, 10000>>,
      <<3000, 3000, 0, 0>> }

\* Faces the tick-only specification starts from
TickFaces == { FaceData(b) : b \in BBoxes }

\* Faces the detector delivers in the concurrent specification
Faces == { FaceData(<<4000, 4000, 2000, 2000>>),
           FaceData(<<1000, 0, 9000, 10000>>) }

----------------------------------------------------------------------------
\* Pure computations of ScalerCropController

\* DisplayProcessor._get_landmark_center, doubled like CenterX2/CenterY2
get_landmark_center2(landmarks, zoom_level) ==
    IF zoom_level = "EYES"
    THEN <<landmarks[1][1] + landmarks[2][1], landmarks[1][2] + landmarks[2][2]>>
    ELSE IF zoom_level = "LIPS"
    THEN <<2 * landmarks[4][1], 2 * landmarks[4][2]>>
    ELSE <<2 * landmarks[3][1], 2 * landmarks[3][2]>>

\* Variant: the crop is centred on the landmark point of the zoom level
TargetCropFor_landmarks(face_data, zoom) ==
    LET bbox == face_data.bbox
        center2 == get_landmark_center2(face_data.landmarks, zoom)
        base_size == Max(bbox[3], bbox[4])
        size == RoundDiv(base_size * hardware_zoom_ratios[zoom], TENTHS)
        x == RoundDiv(center2[1] - size, 2)
        y == RoundDiv(center2[2] - size, 2)
    IN  <<x, y, size, size>>

\* update_target_crop: the crop (x, y, size, size) for a face at a zoom level
TargetCropFor(face_data, zoom) ==
    LET bbox == face_data.bbox
        center_x2 == 2 * bbox[1] + bbox[3]
        center_y2 == 2 * bbox[2] + bbox[4]
        base_size == Max(bbox[3], bbox[4])
        size == RoundDiv(base_size * hardware_zoom_ratios[zoom], TENTHS)
        x == RoundDiv(center_x2 - size, 2)
        y == RoundDiv(center_y2 - size, 2)
    IN  <<x, y, size, size>>

\* Twice the centre of a crop
CenterX2(crop) == 2 * crop[1] + crop[3]
CenterY2(crop) == 2 * crop[2] + crop[4]

\* Variant: no dead zone, every difference is smoothed
MovementExceedsThreshold_always(current, target) == TRUE

\* distance > threshold_distance in _smooth_crop_update:
\*   sqrt(dx^2 + dy^2) > current[2] * movement_threshold_ratio
\* with dx = dx2 / 2 and the ratio in tenths: (5 dx2)^2 + (5 dy2)^2 > (w * ratio)^2
MovementExceedsThreshold(current, target) ==
    LET delta_x2 == CenterX2(target) - CenterX2(current)
        delta_y2 == CenterY2(target) - CenterY2(current)
        threshold10 == current[3] * movement_threshold_ratio
    IN  IF threshold10 < 0 THEN TRUE
        ELSE SumSqExceeds(5 * delta_x2, 5 * delta_y2, threshold10)

\* smoothed = current + (target - current) * smoothing_factor
Smoothed(current, target) ==
    current + RoundDiv((target - current) * smoothing_factor, HUNDREDTHS)

\* The branch _smooth_crop_update takes
SmoothBranch(current, target) ==
    IF target = None THEN "none"
    ELSE IF current = None THEN "snap"
    ELSE IF MovementExceedsThreshold(current, target) THEN "smooth"
    ELSE "dead"

\* The value _smooth_crop_update leaves in current_crop (and returns)
smooth_crop_update(current, target) ==
    CASE SmoothBranch(current, target) = "none" -> current
      [] SmoothBranch(current, target) = "snap" -> target
      [] SmoothBranch(current, target) = "smooth" ->
            [i \in 1..4 |-> Smoothed(current[i], target[i])]
      [] SmoothBranch(current, target) = "dead" -> current

convert_to_sensor_coordinates(normalized_crop) ==
    LET x == normalized_crop[1]
        y == normalized_crop[2]
        w == normalized_crop[3]
        h == normalized_crop[4]
        sensor_size == PyInt(h * sensor_height, UNIT)
        \* int(center - sensor_size/2), center = (x + w/2) * sensor_dim
        raw_x == PyInt((2 * x + w) * sensor_width - sensor_size * UNIT, 2 * UNIT)
        raw_y == PyInt((2 * y + h) * sensor_height - sensor_size * UNIT, 2 * UNIT)
        sensor_x == Max(0, Min(sensor_width - sensor_size, raw_x))
        sensor_y == Max(0, Min(sensor_height - sensor_size, raw_y))
    IN  <<sensor_x, sensor_y, sensor_size, sensor_size>>

----------------------------------------------------------------------------
\* State

Callers == {"face", "voice"}
Threads == Callers \cup {"crop"}

VARIABLES
    current_crop,    \* ScalerCropController.current_crop
    target_crop,     \* ScalerCropController.target_crop
    current_zoom,    \* ScalerCropController.current_zoom
    lock,            \* ScalerCropController.lock: "free" or the holding thread
    pc,              \* position of each thread
    frame,           \* locals of the call each caller thread is in
    crop_settings,   \* local of _update_loop
    ScalerCrop,      \* last value given to picam2.set_controls, None before
    raised,          \* an exception left update_target_crop
    seq,             \* progress of the sequence set_zoom_level,
                     \* update_target_crop, tick: 0, 1, 2 or 3 of them done
    branch,          \* branch the last tick took in _smooth_crop_update
    snap_pending,    \* set_zoom_level returned and no tick with a target since
    nticks,          \* ticks done
    ticks_left,      \* ticks the model still allows
    calls_left,      \* calls of set_zoom_level / update_target_crop still allowed
    start_crop       \* current_crop a tick-only behaviour starts with

\* core/async_helper.py: AsyncHelper, its dispatcher thread, the executor's
\* workers and the threads that call schedule_task and get_result
VARIABLES
    running,          \* AsyncHelper.running
    task_queue,       \* AsyncHelper.task_queue.queue: the heap list of
                      \* queue.PriorityQueue
    unfinished_tasks, \* AsyncHelper.task_queue.unfinished_tasks
    results,          \* AsyncHelper.results: set of <<task_id, result>>
    dpc,              \* position of the dispatcher thread (_run_event_loop)
    cur,              \* the entry _run_event_loop unpacked last
    future,           \* the future _process_task waits for
    work_queue,       \* AsyncHelper.executor: work items no worker has taken
    busy,             \* AsyncHelper.executor: work items that occupy a worker
    max_workers,      \* AsyncHelper.executor: size of the pool
    now,              \* time.monotonic(), in tenths of a second
    sframe,           \* locals of the schedule_task call of each submitter
    ncalls,           \* schedule_task calls begun
    nput,             \* entries given to task_queue.put_nowait
    menu,             \* menu[k]: the calls the k-th schedule_task may be
    returned,         \* the last get_result / clear_results call: its
                      \* arguments and the value it returned
    polls_left,       \* get_result / clear_results calls still allowed
    started,          \* entries whose func a worker has begun to run
    stored,           \* entries whose result _process_task has stored
    completions       \* <<task_id, result>> of the tasks that completed
                      \* with a result, oldest first, without those a
                      \* get_result or clear_results has removed since

sched_vars == <<running, task_queue, unfinished_tasks, results, dpc, cur,
                future, work_queue, busy, max_workers, now, sframe, ncalls,
                nput, menu, returned, polls_left, started, stored,
                completions>>

\* core/frame_buffer.py: FrameBuffer and the threads that call it
VARIABLES
    frames,            \* FrameBuffer._frames: the deque of queue.Queue
    latest_frame,      \* FrameBuffer._latest_frame
    latest_frame_lock, \* FrameBuffer._latest_frame_lock: "free" or the holder
    buffer_size,       \* maxsize of FrameBuffer._frames
    bpc,               \* position of each thread that calls the buffer
    bframe,            \* the frame argument / return value of each call
    buf_calls_left,    \* buffer calls the model still allows
    nframes,           \* frames the camera has produced
    last_swap,         \* frame of the add_frame whose locked swap was last,
                       \* None after the swap of a clear
    clear_alone        \* no add_frame was in progress at any moment of the
                       \* clear() that is in progress or was last

buf_vars == <<frames, latest_frame, latest_frame_lock, buffer_size, bpc,
              bframe, buf_calls_left, nframes, last_swap, clear_alone>>

\* core/distance_sensor.py, core/voice_controller.py, main.py, the lens of
\* core/camera_manager.py and the flag of ScalerCropController
VARIABLES
    ds_running,            \* DistanceSensor.running
    current_distance,      \* DistanceSensor.current_distance, in tenths of a cm
    focus_history,         \* DistanceSensor.focus_history, oldest first
    measured,              \* DistanceSensor.measure_times is not empty
    spc,                   \* position of the sensor thread (_sensor_loop)
    sfocus,                \* local focus of _sensor_loop
    task_arg,              \* the focus bound to the lambda of each focus update, by sid
    LensPosition,          \* last LensPosition given to set_controls by set_focus,
                          \* -1 before
    vtext,                 \* the text _process_command worked on last, lower-cased
    vsubmitted,            \* the commands whose callback it scheduled
    focus_ret,             \* what the last _map_distance_to_focus returned, 0 before
    map_arg,               \* the distance the last _map_distance_to_focus was given
    good_reads,            \* reads of the sensor that succeeded
    last_read_ok,          \* the last read of the sensor succeeded
    map_calls_left,        \* calls of _map_distance_to_focus still allowed
    lens_calls_left,       \* calls of set_focus still allowed
    reads_left,            \* iterations of _sensor_loop still allowed
    texts_left,            \* texts the recognizer will still deliver
    crop_running,          \* ScalerCropController.running
    crop_stop_pc,          \* position of the crop thread when ScalerCropController.stop
                          \* cleared the flag, "" before
    crop_stop_ticks,       \* nticks at that moment, -1 before
    ds_stop_pc,            \* position of the sensor thread when DistanceSensor.stop
                          \* cleared the flag, "" before
    ds_stop_reads,         \* reads_left at that moment, -1 before
    write_failures,        \* calls of set_controls by _update_loop that raised
    current_face_data,     \* FaceProcessor.current_face_data, NoFaceData for None
    loop_face,             \* local face_data of _processing_loop
    handed,                \* the argument of the last update_target_crop call of the
                          \* detection thread or of DisplayProcessor.set_zoom_level
    got_face,              \* what the last get_current_face_data returned
    fpc,                   \* position of the detection thread (_processing_loop)
    frames_left,           \* frames the detection thread will still process
    face_gets_left,        \* calls of get_current_face_data and of
                          \* DisplayProcessor.set_zoom_level still allowed
    display_zoom,          \* DisplayProcessor.current_zoom
    sw_crop,               \* <<target_size, w>> of the last _software_crop_for_display,
                          \* <<>> before
    sw_calls_left,         \* calls of _software_crop_for_display still allowed
    mono,                  \* time.monotonic() as the crop controller reads it, in units of
                          \* 1/10000 s
    last_update_time,      \* ScalerCropController.last_update_time
    should_ret,            \* what the calls of _should_update returned, oldest first
    current_time,          \* local current_time of _update_loop
    tpc,                   \* position of _update_loop between reading the clock and
                          \* storing last_update_time, "off" when not started
    rate_steps_left,       \* steps the model of the rate limit still allows
    mpc,                   \* position of main (main.py), "off" when it does not run
    main_running,          \* the running flags of the components main starts, other than
                          \* those of the crop controller, the sensor and the scheduler
    distance_sensor_initialized, \* main.distance_sensor_initialized
    voice_controller_initialized, \* main.voice_controller_initialized
    shutdown_requested     \* main.shutdown_requested

focus_vars == <<ds_running, current_distance, focus_history, measured, spc,
               sfocus, task_arg, LensPosition, vtext, vsubmitted, focus_ret,
               map_arg, good_reads, last_read_ok, map_calls_left,
               lens_calls_left, reads_left, texts_left, crop_running,
               crop_stop_pc, crop_stop_ticks, ds_stop_pc, ds_stop_reads,
               write_failures, current_face_data, loop_face, handed,
               got_face, fpc, frames_left, face_gets_left, display_zoom,
               sw_crop, sw_calls_left, mono, last_update_time, should_ret,
               current_time, tpc, rate_steps_left, mpc, main_running,
               distance_sensor_initialized, voice_controller_initialized,
               shutdown_requested>>

crop_vars == <<current_crop, target_crop, current_zoom, lock, pc, frame,
               crop_settings, ScalerCrop, raised, seq, branch,
               snap_pending, nticks, ticks_left, calls_left, start_crop>>

vars == <<current_crop, target_crop, current_zoom, lock, pc, frame,
          crop_settings, ScalerCrop, raised, seq, branch,
          snap_pending, nticks, ticks_left, calls_left, start_crop,
          sched_vars, buf_vars, focus_vars>>

NoFrame == [face_data |-> NoFaceData, zoom |-> "FACE", crop |-> None]

\* Python None where the other values are strings (a result, a frame)
PyNone == "None"

\* No entry, no call, no future
NoTask == [priority |-> 0, task_id |-> <<>>, func |-> "", sid |-> 0]
NoFuture == [state |-> "none", value |-> PyNone]
NoPoll == [op |-> "", task_id |-> <<>>, clear |-> FALSE, value |-> PyNone]

Submitters == {"s1", "s2"}

\* AsyncHelper.__init__ with max_workers = n; m is what the program will
\* submit to it, polls the number of result polls it will make
SchedInit(m, n, polls) ==
    /\ running = FALSE
    /\ task_queue = <<>>
    /\ unfinished_tasks = 0
    /\ results = {}
    /\ dpc = "off"
    /\ cur = NoTask
    /\ future = NoFuture
    /\ work_queue = <<>>
    /\ busy = {}
    /\ max_workers = n
    /\ sframe = [t \in Submitters |-> NoTask]
    /\ ncalls = 0
    /\ nput = 0
    /\ menu = m
    /\ returned = NoPoll
    /\ polls_left = polls
    /\ started = {}
    /\ stored = {}
    /\ completions = <<>>

\* Threads that call the frame buffer: two that publish frames, one that
\* reads the latest frame, one that clears the buffer
Publishers == {"capture", "capture2"}
Readers == {"detect"}
Cleaners == {"cleaner"}
BufThreads == Publishers \cup Readers \cup Cleaners

\* FrameBuffer.__init__ with buffer_size = n; calls is the number of calls
\* the program will make
BufInit(n, calls) ==
    /\ frames = <<>>
    /\ latest_frame = None
    /\ latest_frame_lock = "free"
    /\ buffer_size = n
    /\ bpc = [t \in BufThreads |-> "idle"]
    /\ bframe = [t \in BufThreads |-> None]
    /\ buf_calls_left = calls
    /\ nframes = 0
    /\ last_swap = None
    /\ clear_alone = FALSE

\* seq after an operation takes effect
SeqAfter(op) ==
    CASE op = "set_zoom" -> 1
      [] op = "update_target" -> IF seq = 1 THEN 2 ELSE 0
      [] op = "tick" -> IF seq = 2 THEN 3 ELSE 0

\* The scheduler and the frame buffer as constructed, with nothing calling
\* them
SchedAtRest == SchedInit(<<>>, 2, 0) /\ now = 0
BufAtRest == BufInit(3, 0)

\* DistanceSensor.__init__, VoiceController.__init__ and the lens before any
\* set_focus; the arguments are the numbers of calls the model allows, and
\* whether DistanceSensor.start was called
FocusInit(maps, lens, reads, texts, on) ==
    /\ ds_running = on
    /\ current_distance = 0
    /\ focus_history = <<>>
    /\ measured = FALSE
    /\ spc = IF on THEN "while" ELSE "off"
    /\ sfocus = 0
    /\ task_arg = <<>>
    /\ LensPosition = 0 - 1
    /\ vtext = <<>>
    /\ vsubmitted = <<>>
    /\ focus_ret = 0
    /\ map_arg = 0
    /\ good_reads = 0
    /\ last_read_ok = TRUE
    /\ map_calls_left = maps
    /\ lens_calls_left = lens
    /\ reads_left = reads
    /\ texts_left = texts
    /\ crop_running = TRUE
    /\ crop_stop_pc = ""
    /\ crop_stop_ticks = 0 - 1
    /\ ds_stop_pc = ""
    /\ ds_stop_reads = 0 - 1
    /\ write_failures = 0

\* FaceProcessor.__init__; the arguments are the numbers of frames and of calls
\* the model allows, and whether start was called
FaceInit(nframes_allowed, gets, on) ==
    /\ current_face_data = NoFaceData
    /\ loop_face = NoFaceData
    /\ handed = NoFaceData
    /\ got_face = NoFaceData
    /\ fpc = IF on THEN "loop" ELSE "off"
    /\ frames_left = nframes_allowed
    /\ face_gets_left = gets
    /\ display_zoom = "FACE"
    /\ sw_crop = <<>>
    /\ sw_calls_left = 0

FaceAtRest == FaceInit(0, 0, FALSE)

\* ScalerCropController.__init__: the rate limit; the arguments are the time
\* of the clock, the number of steps the model allows and whether start was
\* called
RateInit(start, steps, on) ==
    /\ mono = start
    /\ last_update_time = 0
    /\ should_ret = <<>>
    /\ current_time = 0
    /\ tpc = IF on THEN "top" ELSE "off"
    /\ rate_steps_left = steps

RateAtRest == RateInit(0, 0, FALSE)

\* The components main starts and stops
MainComponents ==
    {"camera", "face_processor", "display_processor", "voice_controller"}

\* main, lines 43-99: the components are constructed; the arguments are
\* whether the distance sensor and the voice controller could be constructed
\* and whether main goes on
MainInit(sensor, voice, on) ==
    /\ mpc = IF on THEN "start_helper" ELSE "off"
    /\ main_running = [c \in MainComponents |-> FALSE]
    /\ distance_sensor_initialized = sensor
    /\ voice_controller_initialized = voice
    /\ shutdown_requested = FALSE

MainAtRest == MainInit(FALSE, FALSE, FALSE)

FocusAtRest ==
    FocusInit(0, 0, 0, 0, FALSE) /\ FaceAtRest /\ RateAtRest /\ MainAtRest

InitCommon ==
    /\ current_zoom = "FACE"
    /\ lock = "free"
    /\ pc = [t \in Threads |-> IF t = "crop" THEN "wait" ELSE "idle"]
    /\ frame = [t \in Callers |-> NoFrame]
    /\ crop_settings = None
    /\ ScalerCrop = None
    /\ raised = FALSE
    /\ seq = 0
    /\ branch = "none"
    /\ snap_pending = FALSE
    /\ nticks = 0

\* ScalerCropController.__init__
Init ==
    /\ InitCommon
    /\ current_crop = None
    /\ target_crop = None
    /\ ticks_left = MaxTicks
    /\ calls_left = MaxCalls
    /\ start_crop = None
    /\ SchedAtRest
    /\ BufAtRest
    /\ FocusAtRest

\* Crops update_target_crop can produce
TickCrops == { TargetCropFor(f, z) : f \in TickFaces, z \in ZoomLevel }

\* The controller with a crop adopted and a target set, the clients silent
InitTick ==
    /\ InitCommon
    /\ current_crop \in TickCrops
    /\ target_crop \in TickCrops
    /\ start_crop = current_crop
    /\ ticks_left = ConvergeBound + 2
    /\ calls_left = 0
    /\ SchedAtRest
    /\ BufAtRest
    /\ FocusAtRest

----------------------------------------------------------------------------
\* ScalerCropController.set_zoom_level, called by the voice thread

SetZoomAcquire(t, zoom_level) ==
    /\ pc[t] = "idle"
    /\ calls_left > 0
    /\ lock = "free"
    /\ lock' = t
    /\ calls_left' = calls_left - 1
    /\ pc' = [pc EXCEPT ![t] = "sz_zoom"]
    /\ frame' = [frame EXCEPT ![t] = [NoFrame EXCEPT !.zoom = zoom_level]]
    /\ UNCHANGED <<current_crop, target_crop, current_zoom, crop_settings,
                   ScalerCrop, raised, seq, branch, snap_pending,
                   nticks, ticks_left, start_crop,
                   sched_vars, buf_vars, focus_vars>>

SetZoomAssign(t) ==
    /\ pc[t] = "sz_zoom"
    /\ current_zoom' = frame[t].zoom
    /\ pc' = [pc EXCEPT ![t] = "sz_reset"]
    /\ UNCHANGED <<current_crop, target_crop, lock, frame, crop_settings,
                   ScalerCrop, raised, seq, branch, snap_pending,
                   nticks, ticks_left, calls_left, start_crop,
                   sched_vars, buf_vars, focus_vars>>

\* Variant: set_zoom_level without the reset of current_crop
SetZoomReset_keep(t) ==
    /\ pc[t] = "sz_reset"
    /\ pc' = [pc EXCEPT ![t] = "sz_release"]
    /\ UNCHANGED <<current_crop, target_crop, current_zoom, lock, frame,
                   crop_settings, ScalerCrop, raised, seq, branch,
                   snap_pending, nticks, ticks_left, calls_left, start_crop,
                   sched_vars, buf_vars, focus_vars>>

SetZoomReset(t) ==
    /\ pc[t] = "sz_reset"
    /\ current_crop' = None
    /\ pc' = [pc EXCEPT ![t] = "sz_release"]
    /\ UNCHANGED <<target_crop, current_zoom, lock, frame, crop_settings,
                   ScalerCrop, raised, seq, branch, snap_pending,
                   nticks, ticks_left, calls_left, start_crop,
                   sched_vars, buf_vars, focus_vars>>

SetZoomRelease(t) ==
    /\ pc[t] = "sz_release"
    /\ lock' = "free"
    /\ pc' = [pc EXCEPT ![t] = "sz_done"]
    /\ frame' = [frame EXCEPT ![t] = NoFrame]
    /\ seq' = SeqAfter("set_zoom")
    /\ snap_pending' = TRUE
    /\ UNCHANGED <<current_crop, target_crop, current_zoom,
                   crop_settings, ScalerCrop, raised, branch,
                   nticks, ticks_left, calls_left, start_crop,
                   sched_vars, buf_vars, focus_vars>>

----------------------------------------------------------------------------
\* ScalerCropController.update_target_crop

\* Variant: a call without face data clears the target
UpdateTargetCompute_clear(t, face_data) ==
    IF face_data = NoFaceData
    THEN /\ pc' = [pc EXCEPT ![t] = "idle"]
         /\ frame' = [frame EXCEPT ![t] = NoFrame]
         /\ seq' = SeqAfter("update_target")
         /\ target_crop' = None
         /\ UNCHANGED <<current_crop, current_zoom, lock,
                        crop_settings, ScalerCrop, raised, branch,
                        snap_pending, nticks, ticks_left, start_crop,
                   sched_vars, buf_vars, focus_vars>>
    ELSE /\ raised' = (raised \/ current_zoom \notin DOMAIN hardware_zoom_ratios
                              \/ Len(face_data.bbox) < 4)
         /\ pc' = [pc EXCEPT ![t] = "ut_write"]
         /\ frame' = [frame EXCEPT ![t] =
                        [face_data |-> face_data, zoom |-> current_zoom,
                         crop |-> TargetCropFor(face_data, current_zoom)]]
         /\ UNCHANGED <<current_crop, target_crop, current_zoom, lock,
                        crop_settings, ScalerCrop, seq, branch,
                        snap_pending, nticks, ticks_left, start_crop,
                   sched_vars, buf_vars, focus_vars>>

\* Lines 62-76: the early return, or the computation of (x, y, size, size)
\* from the bbox and self.current_zoom, read without the lock
UpdateTargetCompute(t, face_data) ==
    IF face_data = NoFaceData
    THEN /\ pc' = [pc EXCEPT ![t] = "idle"]
         /\ frame' = [frame EXCEPT ![t] = NoFrame]
         /\ seq' = SeqAfter("update_target")
         /\ UNCHANGED <<current_crop, target_crop, current_zoom, lock,
                        crop_settings, ScalerCrop, raised, branch,
                        snap_pending, nticks, ticks_left, start_crop,
                   sched_vars, buf_vars, focus_vars>>
    ELSE /\ raised' = (raised \/ current_zoom \notin DOMAIN hardware_zoom_ratios
                              \/ Len(face_data.bbox) < 4)
         /\ pc' = [pc EXCEPT ![t] = "ut_write"]
         /\ frame' = [frame EXCEPT ![t] =
                        [face_data |-> face_data, zoom |-> current_zoom,
                         crop |-> TargetCropFor(face_data, current_zoom)]]
         /\ UNCHANGED <<current_crop, target_crop, current_zoom, lock,
                        crop_settings, ScalerCrop, seq, branch,
                        snap_pending, nticks, ticks_left, start_crop,
                   sched_vars, buf_vars, focus_vars>>

\* Variant: the write also adopts the new target as the current crop
UpdateTargetWrite_adopt(t) ==
    /\ pc[t] = "ut_write"
    /\ lock = "free"
    /\ target_crop' = frame[t].crop
    /\ current_crop' = frame[t].crop
    /\ pc' = [pc EXCEPT ![t] = "idle"]
    /\ frame' = [frame EXCEPT ![t] = NoFrame]
    /\ seq' = SeqAfter("update_target")
    /\ UNCHANGED <<current_zoom, lock, crop_settings,
                   ScalerCrop, raised, branch, snap_pending,
                   nticks, ticks_left, calls_left, start_crop,
                   sched_vars, buf_vars, focus_vars>>

\* Lines 79-80: with self.lock: self.target_crop = (x, y, size, size)
UpdateTargetWrite(t) ==
    /\ pc[t] = "ut_write"
    /\ lock = "free"
    /\ target_crop' = frame[t].crop
    /\ pc' = [pc EXCEPT ![t] = "idle"]
    /\ frame' = [frame EXCEPT ![t] = NoFrame]
    /\ seq' = SeqAfter("update_target")
    /\ UNCHANGED <<current_crop, current_zoom, lock, crop_settings,
                   ScalerCrop, raised, branch, snap_pending,
                   nticks, ticks_left, calls_left, start_crop,
                   sched_vars, buf_vars, focus_vars>>

\* CameraFaceProcessor._processing_loop: a detection is handed to the controller
ProcessingLoop(face_data) ==
    /\ pc["face"] = "idle"
    /\ calls_left > 0
    /\ calls_left' = calls_left - 1
    /\ UpdateTargetCompute("face", face_data)

\* DisplayProcessor.set_zoom_level after the controller's set_zoom_level:
\* the current face data, if any, is handed to the controller
ForceCropUpdate(face_data) ==
    /\ pc["voice"] = "sz_done"
    /\ UNCHANGED calls_left
    /\ UpdateTargetCompute("voice", face_data)

----------------------------------------------------------------------------
\* ScalerCropController._update_loop: one tick.  The first step is the test
\* of the flag, the test of the interval and the entry of the with block.

\* Variant: the tick does not take the lock
LoopAcquire_nolock ==
    /\ pc["crop"] = "wait"
    /\ crop_running
    /\ ticks_left > 0
    /\ pc' = [pc EXCEPT !["crop"] = "check"]
    /\ UNCHANGED <<current_crop, target_crop, current_zoom, lock, frame,
                   crop_settings, ScalerCrop, raised, seq, branch,
                   snap_pending, nticks, ticks_left, calls_left, start_crop,
                   sched_vars, buf_vars, focus_vars>>

LoopAcquire ==
    /\ pc["crop"] = "wait"
    /\ crop_running
    /\ ticks_left > 0
    /\ lock = "free"
    /\ lock' = "crop"
    /\ pc' = [pc EXCEPT !["crop"] = "check"]
    /\ UNCHANGED <<current_crop, target_crop, current_zoom, frame,
                   crop_settings, ScalerCrop, raised, seq, branch,
                   snap_pending, nticks, ticks_left, calls_left, start_crop,
                   sched_vars, buf_vars, focus_vars>>

\* Variant: without a target the tick falls back to the full frame
LoopSmooth_default ==
    /\ pc["crop"] = "check"
    /\ branch' = SmoothBranch(current_crop, target_crop)
    /\ current_crop' = IF target_crop = None THEN <<0, 0, UNIT, UNIT>>
                       ELSE smooth_crop_update(current_crop, target_crop)
    /\ crop_settings' = current_crop'
    /\ pc' = [pc EXCEPT !["crop"] = "emit"]
    /\ seq' = SeqAfter("tick")
    /\ snap_pending' = (snap_pending /\ target_crop = None)
    /\ nticks' = nticks + 1
    /\ ticks_left' = ticks_left - 1
    /\ UNCHANGED <<target_crop, current_zoom, lock, frame, ScalerCrop,
                   raised, calls_left, start_crop,
                   sched_vars, buf_vars, focus_vars>>

\* if self.target_crop is not None: crop_settings = self._smooth_crop_update()
LoopSmooth ==
    /\ pc["crop"] = "check"
    /\ branch' = SmoothBranch(current_crop, target_crop)
    /\ current_crop' = smooth_crop_update(current_crop, target_crop)
    /\ crop_settings' = IF target_crop = None THEN None
                        ELSE smooth_crop_update(current_crop, target_crop)
    /\ pc' = [pc EXCEPT !["crop"] =
                IF target_crop = None THEN "release" ELSE "emit"]
    /\ seq' = SeqAfter("tick")
    /\ snap_pending' = (snap_pending /\ target_crop = None)
    /\ nticks' = nticks + 1
    /\ ticks_left' = ticks_left - 1
    /\ UNCHANGED <<target_crop, current_zoom, lock, frame, ScalerCrop,
                   raised, calls_left, start_crop,
                   sched_vars, buf_vars, focus_vars>>

\* set_controls({"ScalerCrop": _convert_to_sensor_coordinates(crop_settings)})
LoopEmit ==
    /\ pc["crop"] = "emit"
    /\ ScalerCrop' = convert_to_sensor_coordinates(crop_settings)
    /\ pc' = [pc EXCEPT !["crop"] = "release"]
    /\ UNCHANGED <<current_crop, target_crop, current_zoom, lock, frame,
                   crop_settings, raised, seq, branch, snap_pending,
                   nticks, ticks_left, calls_left, start_crop,
                   sched_vars, buf_vars, focus_vars>>

LoopRelease ==
    /\ pc["crop"] = "release"
    /\ lock' = "free"
    /\ pc' = [pc EXCEPT !["crop"] = "wait"]
    /\ crop_settings' = None
    /\ UNCHANGED <<current_crop, target_crop, current_zoom, frame,
                   ScalerCrop, raised, seq, branch, snap_pending,
                   nticks, ticks_left, calls_left, start_crop,
                   sched_vars, buf_vars, focus_vars>>

----------------------------------------------------------------------------
Next ==
    \/ \E z \in ZoomLevel : SetZoomAcquire("voice", z)
    \/ SetZoomAssign("voice")
    \/ SetZoomReset("voice")
    \/ SetZoomRelease("voice")
    \/ \E f \in Faces \cup {NoFaceData} : ProcessingLoop(f)
    \/ \E f \in Faces \cup {NoFaceData} : ForceCropUpdate(f)
    \/ \E t \in Callers : UpdateTargetWrite(t)
    \/ LoopAcquire
    \/ LoopSmooth
    \/ LoopEmit
    \/ LoopRelease

Spec == Init /\ [][Next]_vars

NextTick == LoopAcquire \/ LoopSmooth \/ LoopEmit \/ LoopRelease

SpecTick == InitTick /\ [][NextTick]_vars

TypeOK ==
    /\ current_zoom \in ZoomLevel
    /\ lock \in {"free"} \cup Threads
    /\ nticks + ticks_left \in {MaxTicks, ConvergeBound + 2}

----------------------------------------------------------------------------
\* Properties

\* Steps of the threads, recognised by their positions
TickStep == pc["crop"] = "check" /\ pc'["crop"] # "check"
EmitStep == pc["crop"] = "emit" /\ pc'["crop"] = "release"
WriteStep(t) == pc[t] = "ut_write" /\ pc'[t] = "idle"
NoFaceStep(t) ==
    \/ pc[t] = "sz_done" /\ pc'[t] = "idle"
    \/ pc[t] = "idle" /\ pc' = pc /\ calls_left' # calls_left
UpdateStep(t) ==
    \/ pc[t] \in {"idle", "sz_done"} /\ pc'[t] = "ut_write"
    \/ WriteStep(t)
    \/ NoFaceStep(t)
InSetZoom(t) == pc[t] \in {"sz_zoom", "sz_reset", "sz_release"}

\* distance < threshold_distance, strictly
InsideDeadZone(current, target) ==
    LET a == 5 * (CenterX2(target) - CenterX2(current))
        b == 5 * (CenterY2(target) - CenterY2(current))
        c == current[3] * movement_threshold_ratio
    IN  Abs(a) < c /\ Abs(b) < c /\ a * a + b * b < c * c

\* Four times the squared distance between the centres of two crops
DistSq4(current, target) ==
    LET a == CenterX2(target) - CenterX2(current)
        b == CenterY2(target) - CenterY2(current)
    IN  a * a + b * b

\* C1: every hardware crop (x, y, size, size) given to set_controls lies
\* inside the sensor, has a positive size and is square.
C1_CropBounds ==
    ScalerCrop # None =>
        /\ 0 <= ScalerCrop[1]
        /\ 0 <= ScalerCrop[2]
        /\ ScalerCrop[1] + ScalerCrop[3] <= sensor_width
        /\ ScalerCrop[2] + ScalerCrop[4] <= sensor_height
        /\ ScalerCrop[3] > 0
        /\ ScalerCrop[3] = ScalerCrop[4]

\* C2: with a fixed target whose centre is closer to the centre of the
\* starting crop than the movement threshold, current_crop is the starting
\* crop after any number of ticks.
C2_DeadZone ==
    (start_crop # None /\ InsideDeadZone(start_crop, target_crop))
        => current_crop = start_crop

C2_Witness ==
    /\ start_crop # None
    /\ InsideDeadZone(start_crop, target_crop)
    /\ target_crop # start_crop
    /\ nticks >= 3
    /\ branch = "dead"

\* C3: with a fixed target outside the dead zone every tick strictly
\* decreases the distance between the centres, and after ConvergeBound ticks
\* the distance is within the threshold.
C3_MonotoneConvergence ==
    /\ [][(TickStep /\ MovementExceedsThreshold(current_crop, target_crop))
            => DistSq4(current_crop', target_crop) < DistSq4(current_crop, target_crop)]_vars
    /\ [](nticks >= ConvergeBound
            => ~MovementExceedsThreshold(current_crop, target_crop))

\* C4: set_zoom_level, then update_target_crop, then one tick leave
\* current_crop equal to target_crop, the tick having neither smoothed nor
\* applied the dead zone.
C4_ZoomSnap ==
    [][(TickStep /\ seq = 2)
          => (current_crop' = target_crop' /\ branch' \in {"snap", "none"})]_vars

C4_Witness ==
    /\ seq = 3
    /\ branch = "snap"
    /\ ScalerCrop # None
    /\ pc["crop"] = "emit"
    /\ convert_to_sensor_coordinates(current_crop) # ScalerCrop

\* C5: no tick is between acquiring and releasing the lock while
\* set_zoom_level is between its two assignments, and the first tick with a
\* target after set_zoom_level returned adopts the target.
C5_ZoomAtomic ==
    /\ [](\A t \in Callers : InSetZoom(t) => (lock = t /\ pc["crop"] = "wait"))
    /\ [][(TickStep /\ snap_pending /\ target_crop # None)
            => (current_crop' = target_crop /\ branch' = "snap")]_vars

C5_Witness ==
    /\ pc["crop"] = "emit"
    /\ branch = "snap"
    /\ ~snap_pending
    /\ current_zoom # "FACE"
    /\ ScalerCrop # None
    /\ current_crop = target_crop

\* C6 as claimed: the target written by update_target_crop is centred on
\* the landmark point of the zoom level (eyes midpoint, mouth, nose).
C6_LandmarkCentre ==
    [][\A t \in Callers : WriteStep(t) =>
          <<CenterX2(target_crop'), CenterY2(target_crop')>>
             = get_landmark_center2(frame[t].face_data.landmarks, frame[t].zoom)]_vars

\* C6 amended: the target written by update_target_crop is centred on the
\* centre of the bbox at every zoom level.
C6_BBoxCentre ==
    [][\A t \in Callers : WriteStep(t) =>
          LET bbox == frame[t].face_data.bbox
          IN  /\ CenterX2(target_crop') = 2 * bbox[1] + bbox[3]
              /\ CenterY2(target_crop') = 2 * bbox[2] + bbox[4]]_vars

C6_Witness ==
    /\ current_zoom = "EYES"
    /\ \E f \in Faces :
          /\ target_crop = TargetCropFor(f, "EYES")
          /\ <<CenterX2(target_crop), CenterY2(target_crop)>>
                # get_landmark_center2(f.landmarks, "EYES")

\* Ratios test_initialization expects, in tenths
documented_zoom_ratios ==
    [z \in ZoomLevel |->
        CASE z = "WIDE" -> 20
          [] z = "FACE" -> 12
          [] z = "EYES" -> 15
          [] z = "LIPS" -> 15]

\* C7: the target written by update_target_crop has
\* size = max(width, height) * ratio with ratio 1.2 for FACE (2.0 WIDE,
\* 1.5 EYES, 1.5 LIPS) and is (centre - size/2, centre - size/2, size, size).
C7_TargetSize ==
    [][\A t \in Callers : WriteStep(t) =>
          LET bbox == frame[t].face_data.bbox
              size == RoundDiv(Max(bbox[3], bbox[4])
                                 * documented_zoom_ratios[frame[t].zoom], TENTHS)
          IN  target_crop' = << RoundDiv(2 * bbox[1] + bbox[3] - size, 2),
                                RoundDiv(2 * bbox[2] + bbox[4] - size, 2),
                                size, size >>]_vars

\* C8: once there is a target, no call without face data and no tick takes
\* the target or the current crop away, and every tick issues the hardware
\* crop of the current crop.
C8_KeepsLastCrop ==
    [][target_crop # None =>
          /\ target_crop' # None
          /\ \A t \in Callers : NoFaceStep(t) =>
                UNCHANGED <<target_crop, current_crop, ScalerCrop>>
          /\ TickStep =>
                /\ pc'["crop"] = "emit"
                /\ target_crop' = target_crop
                /\ current_crop' # None
                /\ crop_settings' = current_crop'
          /\ EmitStep =>
                /\ ScalerCrop' = convert_to_sensor_coordinates(current_crop)
                /\ UNCHANGED <<target_crop, current_crop>>
          /\ (current_crop # None /\ ~(\E t \in Callers : InSetZoom(t)))
                => current_crop' # None]_vars

C8_Witness ==
    /\ calls_left = 0
    /\ pc["face"] = "idle"
    /\ seq = 0
    /\ branch = "dead"
    /\ nticks >= 2
    /\ pc["crop"] = "wait"
    /\ ScalerCrop = convert_to_sensor_coordinates(current_crop)

\* C9: while target_crop is None a tick changes nothing: current_crop stays
\* None and no ScalerCrop command has been issued.
C9_NoTargetNoOp ==
    target_crop = None =>
        /\ current_crop = None
        /\ ScalerCrop = None
        /\ crop_settings = None
        /\ pc["crop"] # "emit"

C9_Witness ==
    /\ target_crop = None
    /\ nticks >= 2
    /\ pc["crop"] = "release"

\* C10: update_target_crop never raises, its steps change neither
\* current_crop nor the zoom level nor the hardware crop (nothing at all
\* without face data), and target_crop is None or one square crop that one
\* call computed.
C10_UpdateTargetSafe ==
    /\ [](~raised)
    /\ [](target_crop # None =>
            /\ Len(target_crop) = 4
            /\ target_crop[3] = target_crop[4]
            /\ \E f \in Faces, z \in ZoomLevel : target_crop = TargetCropFor(f, z))
    /\ [][\A t \in Callers : UpdateStep(t) =>
            /\ UNCHANGED <<current_crop, current_zoom, ScalerCrop, lock>>
            /\ NoFaceStep(t) => UNCHANGED target_crop]_vars

C10_Witness ==
    /\ pc["face"] = "ut_write"
    /\ pc["voice"] = "ut_write"
    /\ frame["face"].crop # frame["voice"].crop
    /\ lock = "crop"
    /\ target_crop # None

----------------------------------------------------------------------------
(***************************************************************************)
(* Functions of core/distance_sensor.py, core/voice_controller.py and      *)
(* CameraManager.set_focus.  Distances are in tenths of a centimetre,      *)
(* focus values in units of 1/UNIT like the crop coordinates.              *)
(***************************************************************************)

\* DistanceSensor.distance_focus_map
distance_focus_map ==
    (329 :> 11 * UNIT) @@ (430 :> 103 * (UNIT \div 10))
        @@ (506 :> 103 * (UNIT \div 10)) @@ (607 :> 96 * (UNIT \div 10))
        @@ (871 :> 95 * (UNIT \div 10))

\* sorted(keys)
RECURSIVE sorted(_)
sorted(S) ==
    IF S = {} THEN <<>>
    ELSE LET m == CHOOSE x \in S : \A y \in S : x <= y
         IN  <<m>> \o sorted(S \ {m})

\* Variant: the interpolation runs from the far point of the bracket
interpolate_far(f1, f2, d1, d2, distance) ==
    f2 + RoundDiv((f2 - f1) * (distance - d1), d2 - d1)

\* f1 + (f2 - f1) * (distance - d1) / (d2 - d1)
interpolate(f1, f2, d1, d2, distance) ==
    f1 + RoundDiv((f2 - f1) * (distance - d1), d2 - d1)

\* _map_distance_to_focus, lines 106-124: raw_focus for the calibration
\* points map
raw_focus_of(map, distance) ==
    LET distances == sorted(DOMAIN map)
        n == Len(distances)
        hits == { i \in 1..(n - 1) :
                    distances[i] <= distance /\ distance <= distances[i + 1] }
    IN  IF distance <= distances[1] THEN map[distances[1]]
        ELSE IF distance >= distances[n] THEN map[distances[n]]
        ELSE IF hits = {} THEN map[distances[1]]
        ELSE LET i == CHOOSE k \in hits : \A j \in hits : k <= j
             IN  interpolate(map[distances[i]], map[distances[i + 1]],
                             distances[i], distances[i + 1], distance)

raw_focus(distance) == raw_focus_of(distance_focus_map, distance)

\* deque(maxlen=5)
history_maxlen == 5

\* Variant: a full history keeps what it has and drops the new value
push_keep(history, value) ==
    IF Len(history) >= history_maxlen
    THEN history
    ELSE Append(history, value)

\* deque.append
push(history, value) ==
    IF Len(history) >= history_maxlen
    THEN Tail(history) \o <<value>>
    ELSE Append(history, value)

\* weights, in hundredths
weights == <<10, 15, 20, 25, 30>>

\* Variant: the weights are taken from the front of the list
weights_for_front(n) == SubSeq(weights, 1, n)

\* weights[-n:]
weights_for(n) == SubSeq(weights, Len(weights) - n + 1, Len(weights))

RECURSIVE SumSeq(_)
SumSeq(q) == IF q = <<>> THEN 0 ELSE Head(q) + SumSeq(Tail(q))

\* Unit of a normalised weight: every sum of the last n weights divides it
WEIGHT_UNIT == 99 * 100

\* weights normalised by their sum, in units of 1/WEIGHT_UNIT
normalized(w) == [i \in 1..Len(w) |-> (w[i] * WEIGHT_UNIT) \div SumSeq(w)]

\* _map_distance_to_focus, lines 132-142: the weighted average.  Every
\* product f * w is rounded to the unit of the representation, as a float
\* product is rounded to its last place, and the rounded products are added
smoothed_focus(history) ==
    LET w == normalized(weights_for(Len(history)))
    IN  SumSeq([i \in 1..Len(history) |->
                   RoundDiv(history[i] * w[i], WEIGHT_UNIT)])

focus_smoothing_enabled == TRUE

\* What _map_distance_to_focus(distance) returns when the history is history
map_return(history, distance) ==
    IF focus_smoothing_enabled /\ Len(push(history, raw_focus(distance))) > 0
    THEN smoothed_focus(push(history, raw_focus(distance)))
    ELSE raw_focus(distance)

\* What _map_distance_to_focus(distance) leaves in focus_history
map_history(history, distance) ==
    IF focus_smoothing_enabled THEN push(history, raw_focus(distance))
    ELSE history

\* CameraManager.focus_range
focus_range == <<8 * UNIT, 125 * (UNIT \div 10)>>

\* Variant: set_focus that passes its argument on as it is
set_focus_unclamped(focus_value) == focus_value

\* CameraManager.set_focus, line 218: the value given to set_controls
set_focus(focus_value) ==
    Max(Min(focus_value, focus_range[2]), focus_range[1])

\* DistanceSensor.min_distance, max_distance
min_distance == 300
max_distance == 900

\* _measure_distance, line 85
clamp_distance(distance_cm) == Max(min_distance, Min(max_distance, distance_cm))

\* VoiceCommand, in the order of the enumeration: name and keyword
VoiceCommand ==
    << [name |-> "EYES", value |-> <<101, 121, 101>>],
       [name |-> "LIPS", value |-> <<108, 105, 112, 115>>],
       [name |-> "FACE", value |-> <<102, 97, 99, 101>>],
       [name |-> "ZOOM_OUT",
        value |-> <<122, 111, 111, 109, 32, 111, 117, 116>>],
       [name |-> "FOCUS", value |-> <<102, 111, 99, 117, 115>>] >>

\* The commands main.py gives a callback
command_callbacks == {"EYES", "LIPS", "FACE", "ZOOM_OUT", "FOCUS"}

\* str.lower on the letters A to Z
lower(text) ==
    [i \in 1..Len(text) |->
        IF text[i] >= 65 /\ text[i] <= 90 THEN text[i] + 32 ELSE text[i]]

\* keyword in text
Contains(text, keyword) ==
    \E k \in 0..(Len(text) - Len(keyword)) :
        SubSeq(text, k + 1, k + Len(keyword)) = keyword

\* Variant: the scan goes on to the last command that matches
RECURSIVE scan_last(_, _)
scan_last(text, i) ==
    IF i > Len(VoiceCommand) THEN <<>>
    ELSE IF scan_last(text, i + 1) # <<>> THEN scan_last(text, i + 1)
    ELSE IF Contains(text, VoiceCommand[i].value)
            /\ VoiceCommand[i].name \in command_callbacks
        THEN <<VoiceCommand[i].name>>
    ELSE <<>>

\* _process_command, lines 193-203: the commands whose callback the loop
\* over VoiceCommand schedules, scanning from the i-th command
RECURSIVE scan(_, _)
scan(text, i) ==
    IF i > Len(VoiceCommand) THEN <<>>
    ELSE IF Contains(text, VoiceCommand[i].value)
            /\ VoiceCommand[i].name \in command_callbacks
        THEN <<VoiceCommand[i].name>>
    ELSE scan(text, i + 1)

\* The callable main.py binds to a command, and the zoom level of a zoom
\* command
CommandFunc(name) ==
    CASE name = "EYES" -> "cmd_EYES"
      [] name = "LIPS" -> "cmd_LIPS"
      [] name = "FACE" -> "cmd_FACE"
      [] name = "ZOOM_OUT" -> "cmd_ZOOM_OUT"
      [] name = "FOCUS" -> "cmd_FOCUS"

ZoomOf(func) ==
    CASE func = "cmd_EYES" -> "EYES"
      [] func = "cmd_LIPS" -> "LIPS"
      [] func = "cmd_FACE" -> "FACE"
      [] func = "cmd_ZOOM_OUT" -> "WIDE"

ZoomFuncs == {"cmd_EYES", "cmd_LIPS", "cmd_FACE", "cmd_ZOOM_OUT"}

\* The callables of main.py: the focus update of the sensor loop and the
\* voice commands; all of them return None
CallbackFuncs == ZoomFuncs \cup {"cmd_FOCUS", "focus_update"}

----------------------------------------------------------------------------
(***************************************************************************)
(* Part 2: core/async_helper.py (AsyncHelper).                             *)
(*                                                                         *)
(* A task id is a Python str, modelled as the sequence of its code points; *)
(* str < str is the lexicographic order on them.  An entry of the task     *)
(* queue is the tuple (priority, task_id, func, args, kwargs); the model   *)
(* keeps one field func for the callable with its arguments, so two        *)
(* entries have the same func exactly when the three last components of    *)
(* the tuples are equal.  The field sid (the number of the put that        *)
(* enqueued the entry) is history: no operation of the program reads it.   *)
(* queue.PriorityQueue keeps its entries in a list ordered by heapq.       *)
(***************************************************************************)

\* Bounds of the scheduler model
ClockStart == 99
MaxClockAdvance == 1
MaxSubmits == 3
MaxPolls == 2
HeapSubmits == 7

ClockEnd == ClockStart + MaxClockAdvance

\* queue.PriorityQueue() is built without maxsize: 0, "no limit"
maxsize == 0

\* str(n) for an int n >= 0
RECURSIVE Digits(_)
Digits(n) ==
    IF n < 10 THEN <<48 + n>> ELSE Digits(n \div 10) \o <<48 + (n % 10)>>

\* str(time.monotonic()) for a reading of t tenths of a second
Str(t) == Digits(t \div 10) \o <<46>> \o <<48 + (t % 10)>>

\* a < b for two str
RECURSIVE StrLt(_, _)
StrLt(a, b) ==
    IF b = <<>> THEN FALSE
    ELSE IF a = <<>> THEN TRUE
    ELSE IF Head(a) # Head(b) THEN Head(a) < Head(b)
    ELSE StrLt(Tail(a), Tail(b))

\* a < b for two queue entries: "lt", "ge", or "err" when Python raises
\* TypeError because the first components that differ are two callables
TupleLt(a, b) ==
    IF a.priority # b.priority
        THEN (IF a.priority < b.priority THEN "lt" ELSE "ge")
    ELSE IF a.task_id # b.task_id
        THEN (IF StrLt(a.task_id, b.task_id) THEN "lt" ELSE "ge")
    ELSE IF a.func # b.func THEN "err"
    ELSE "ge"

\* The list heap with the entries at positions i and j (from 0) exchanged
Swap(heap, i, j) ==
    [heap EXCEPT ![i + 1] = heap[j + 1], ![j + 1] = heap[i + 1]]

\* heapq._siftdown: the entry at pos moves up while it is smaller than its
\* parent; err when a comparison raised, the list as it was at that moment
RECURSIVE siftdown(_, _, _)
siftdown(heap, startpos, pos) ==
    IF pos > startpos
    THEN LET parentpos == (pos - 1) \div 2
             c == TupleLt(heap[pos + 1], heap[parentpos + 1])
         IN  IF c = "err" THEN [heap |-> heap, err |-> TRUE]
             ELSE IF c = "lt"
                 THEN siftdown(Swap(heap, pos, parentpos), startpos, parentpos)
             ELSE [heap |-> heap, err |-> FALSE]
    ELSE [heap |-> heap, err |-> FALSE]

\* heapq._siftup: the smaller child moves up until a leaf is reached, then
\* the entry is sifted down from there
RECURSIVE siftup_from(_, _, _)
siftup_from(heap, startpos, pos) ==
    IF pos < Len(heap) \div 2
    THEN LET left == 2 * pos + 1
             c == IF left + 1 < Len(heap)
                  THEN TupleLt(heap[left + 1], heap[left + 2])
                  ELSE "lt"
             childpos == IF c = "lt" THEN left ELSE left + 1
         IN  IF c = "err" THEN [heap |-> heap, err |-> TRUE]
             ELSE siftup_from(Swap(heap, childpos, pos), startpos, childpos)
    ELSE siftdown(heap, startpos, pos)

siftup(heap, pos) == siftup_from(heap, pos, pos)

\* heapq.heappush: the item is appended, then sifted; it stays in the list
\* when a comparison raises
heappush(heap, item) == siftdown(Append(heap, item), 0, Len(heap))

\* heapq.heappop of a non-empty list: the last entry replaces the first and
\* is sifted; when a comparison raises, the first entry is returned to
\* nobody
heappop(heap) ==
    LET lastelt == heap[Len(heap)]
        rest == SubSeq(heap, 1, Len(heap) - 1)
    IN  IF rest = <<>>
        THEN [heap |-> rest, err |-> FALSE, item |-> lastelt]
        ELSE LET r == siftup([rest EXCEPT ![1] = lastelt], 0)
             IN  [heap |-> r.heap, err |-> r.err, item |-> heap[1]]

\* Callables that return a value at once; job n is the callable of the n-th
\* call of the priority test with its own frame argument
ValueFuncs == {"f", "g", "job1", "job2", "job3", "job4", "job5", "job6"}

\* What a callable does when a worker runs it
Behaviour(func) ==
    CASE func \in ValueFuncs -> "value"      \* returns a value at once
      [] func \in {"quiet", "silent"} -> "none" \* returns None at once
      [] func \in CallbackFuncs -> "none"      \* returns None at once
      [] func = "fails" -> "raise"           \* raises an Exception
      [] func = "hangs" -> "hang"            \* still runs after the timeout

\* What a callable returns
Result(func) == IF func \in ValueFuncs THEN func ELSE PyNone

\* AsyncHelper.pending_tasks
pending_tasks == Len(task_queue)

\* Work items of the executor
Item(task) == [func |-> task.func, sid |-> task.sid]
Awaited(w) == dpc = "wait" /\ cur.sid = w.sid
QueuedSids == { work_queue[i].sid : i \in 1..Len(work_queue) }
BusySids == { w.sid : w \in busy }

\* Variables no operation of the scheduler touches
sched_rest == <<crop_vars, buf_vars, focus_vars, max_workers, menu>>

\* AsyncHelper.start
Start ==
    /\ ~running
    /\ running' = TRUE
    /\ dpc' = "loop"
    /\ UNCHANGED <<task_queue, unfinished_tasks, results, cur, future,
                   work_queue, busy, now, sframe, ncalls, nput, returned,
                   polls_left, started, stored, completions, sched_rest>>

\* schedule_task up to the call of put_nowait: the task id is chosen, from
\* the clock when the caller gave none.  The clock does not go backwards.
ScheduleBegin(t, d) ==
    /\ sframe[t] = NoTask
    /\ ncalls < Len(menu)
    /\ d \in menu[ncalls + 1]
    /\ d.thread = t
    /\ ncalls' = ncalls + 1
    /\ IF d.task_id = None
       THEN \E clk \in now..Min(now + 1, ClockEnd) :
               /\ now' = clk
               /\ sframe' = [sframe EXCEPT ![t] =
                       [priority |-> d.priority, task_id |-> Str(clk),
                        func |-> d.func, sid |-> 0]]
       ELSE /\ now' = now
            /\ sframe' = [sframe EXCEPT ![t] =
                       [priority |-> d.priority, task_id |-> d.task_id,
                        func |-> d.func, sid |-> 0]]
    /\ UNCHANGED <<running, task_queue, unfinished_tasks, results, dpc, cur,
                   future, work_queue, busy, nput, returned, polls_left,
                   started, stored, completions, sched_rest>>

\* schedule_task from put_nowait to its return.  queue.Full is raised, and
\* the task dropped, only by a queue with maxsize > 0; a TypeError of the
\* comparison leaves put_nowait after the entry was appended and before
\* unfinished_tasks is counted up.
SchedulePut(t) ==
    /\ sframe[t] # NoTask
    /\ LET item == [sframe[t] EXCEPT !.sid = nput + 1]
           full == maxsize > 0 /\ Len(task_queue) >= maxsize
           r == heappush(task_queue, item)
       IN  IF full
           THEN UNCHANGED <<task_queue, unfinished_tasks>>
           ELSE /\ task_queue' = r.heap
                /\ unfinished_tasks' =
                       IF r.err THEN unfinished_tasks
                       ELSE unfinished_tasks + 1
    /\ nput' = nput + 1
    /\ sframe' = [sframe EXCEPT ![t] = NoTask]
    /\ UNCHANGED <<running, results, dpc, cur, future, work_queue, busy,
                   now, ncalls, returned, polls_left, started, stored,
                   completions, sched_rest>>

\* _run_event_loop, lines 49-50: the queue is not empty and get_nowait pops
\* an entry.  A TypeError of the comparison is caught by the handler of the
\* loop, which goes round again.
Dequeue ==
    /\ dpc = "loop"
    /\ running
    /\ task_queue # <<>>
    /\ LET r == heappop(task_queue)
       IN  /\ task_queue' = r.heap
           /\ IF r.err
              THEN UNCHANGED <<dpc, cur>>
              ELSE dpc' = "submit" /\ cur' = r.item
    /\ UNCHANGED <<running, unfinished_tasks, results, future, work_queue,
                   busy, now, sframe, ncalls, nput, returned, polls_left,
                   started, stored, completions, sched_rest>>

\* _process_task, line 63: executor.submit
Submit ==
    /\ dpc = "submit"
    /\ work_queue' = Append(work_queue, Item(cur))
    /\ future' = [state |-> "pending", value |-> PyNone]
    /\ dpc' = "wait"
    /\ UNCHANGED <<running, task_queue, unfinished_tasks, results, cur, busy,
                   now, sframe, ncalls, nput, returned, polls_left, started,
                   stored, completions, sched_rest>>

\* CameraManager.set_focus
SetFocus(focus_value) == LensPosition' = set_focus(focus_value)

\* DistanceSensor.get_current_focus: the current distance is mapped, which
\* pushes its raw focus into the history
GetCurrentFocus ==
    /\ map_arg' = current_distance
    /\ focus_history' = map_history(focus_history, current_distance)
    /\ focus_ret' = map_return(focus_history, current_distance)

\* What running the callable of a work item does.  main.py, lines 123-125:
\* focus_callback; line 86: the FOCUS command; lines 82-85 and
\* DisplayProcessor.set_zoom_level: a zoom command, with no face detected
RunCallable(w) ==
    CASE w.func = "focus_update" ->
            /\ IF task_arg[w.sid] # 0 - 1
               THEN SetFocus(task_arg[w.sid])
               ELSE UNCHANGED LensPosition
            /\ UNCHANGED <<crop_vars, focus_history, focus_ret, map_arg>>
      [] w.func = "cmd_FOCUS" ->
            /\ GetCurrentFocus
            /\ SetFocus(map_return(focus_history, current_distance))
            /\ UNCHANGED crop_vars
      [] w.func \in ZoomFuncs ->
            /\ lock = "free"
            /\ current_zoom' = ZoomOf(w.func)
            /\ current_crop' = None
            /\ UNCHANGED <<target_crop, lock, pc, frame, crop_settings,
                           ScalerCrop, raised, seq, branch, snap_pending,
                           nticks, ticks_left, calls_left, start_crop,
                           LensPosition, focus_history, focus_ret, map_arg>>
      [] OTHER ->
            UNCHANGED <<crop_vars, LensPosition, focus_history, focus_ret,
                        map_arg>>

\* A free worker of the executor takes the oldest work item and runs it
WorkerTake ==
    /\ work_queue # <<>>
    /\ Cardinality(busy) < max_workers
    /\ LET w == Head(work_queue)
           b == Behaviour(w.func)
       IN  /\ work_queue' = Tail(work_queue)
           /\ started' = started \cup {w.sid}
           /\ busy' = IF b = "hang" THEN busy \cup {w} ELSE busy
           /\ future' =
                  IF b = "hang" \/ ~Awaited(w) THEN future
                  ELSE IF b = "raise"
                      THEN [state |-> "failed", value |-> PyNone]
                  ELSE [state |-> "done", value |-> Result(w.func)]
           /\ RunCallable(w)
    /\ UNCHANGED <<running, task_queue, unfinished_tasks, results, dpc, cur,
                   now, sframe, ncalls, nput, returned, polls_left, stored,
                   completions, buf_vars, max_workers, menu, ds_running,
                   current_distance, measured, spc, sfocus, task_arg, vtext,
                   vsubmitted, good_reads, last_read_ok, map_calls_left,
                   lens_calls_left, reads_left, texts_left, crop_running,
                   crop_stop_pc, crop_stop_ticks, ds_stop_pc, ds_stop_reads,
                   write_failures, current_face_data, loop_face, handed,
                   got_face, fpc, frames_left, face_gets_left, display_zoom,
                   sw_crop, sw_calls_left, mono, last_update_time, should_ret,
                   current_time, tpc, rate_steps_left, mpc, main_running,
                   distance_sensor_initialized, voice_controller_initialized,
                   shutdown_requested>>

\* A callable that outlived its timeout returns; nobody reads its future
WorkerFinish(w) ==
    /\ w \in busy
    /\ ~Awaited(w)
    /\ busy' = busy \ {w}
    /\ UNCHANGED <<running, task_queue, unfinished_tasks, results, dpc, cur,
                   future, work_queue, now, sframe, ncalls, nput, returned,
                   polls_left, started, stored, completions, sched_rest>>

\* _run_event_loop, line 52: task_done() after _process_task returned.  Its
\* ValueError (more task_done than counted puts) is caught by the handler
\* of the loop.
TaskDone ==
    /\ unfinished_tasks' =
           IF unfinished_tasks > 0 THEN unfinished_tasks - 1
           ELSE unfinished_tasks
    /\ dpc' = "loop"
    /\ cur' = NoTask
    /\ future' = NoFuture

\* _process_task, lines 64-68: future.result returns
FutureResult ==
    /\ dpc = "wait"
    /\ future.state = "done"
    /\ IF future.value # PyNone
       THEN /\ results' = { p \in results : p[1] # cur.task_id }
                              \cup {<<cur.task_id, future.value>>}
            /\ stored' = stored \cup {cur.sid}
            /\ completions' =
                   Append(completions, <<cur.task_id, future.value>>)
       ELSE UNCHANGED <<results, stored, completions>>
    /\ TaskDone
    /\ UNCHANGED <<running, task_queue, work_queue, busy, now, sframe,
                   ncalls, nput, returned, polls_left, started, sched_rest>>

\* _process_task, lines 64 and 70-71: future.result raises what the
\* callable raised
FutureException ==
    /\ dpc = "wait"
    /\ future.state = "failed"
    /\ TaskDone
    /\ UNCHANGED <<running, task_queue, results, work_queue, busy, now,
                   sframe, ncalls, nput, returned, polls_left, started,
                   stored, completions, sched_rest>>

\* _process_task, lines 64 and 70-71: future.result(timeout=1.0) raises
\* TimeoutError.  That happens to a callable that hangs, and to a work item
\* no worker takes because all of them are occupied.  The work item stays
\* where it is.
FutureTimeout ==
    /\ dpc = "wait"
    /\ future.state = "pending"
    /\ IF cur.sid \in BusySids THEN TRUE
       ELSE cur.sid \in QueuedSids /\ Cardinality(busy) = max_workers
    /\ TaskDone
    /\ UNCHANGED <<running, task_queue, results, work_queue, busy, now,
                   sframe, ncalls, nput, returned, polls_left, started,
                   stored, completions, sched_rest>>

\* Task ids a caller polls
PollIds == {<<97>>, Str(ClockStart)}

\* results.get(task_id), None without an entry
Find(rs, task_id) ==
    IF \E p \in rs : p[1] = task_id
    THEN (CHOOSE p \in rs : p[1] = task_id)[2]
    ELSE PyNone

Lookup(task_id) == Find(results, task_id)

\* completions without the results stored under task_id
RECURSIVE Without(_, _)
Without(cs, task_id) ==
    IF cs = <<>> THEN <<>>
    ELSE IF Head(cs)[1] = task_id THEN Without(Tail(cs), task_id)
    ELSE <<Head(cs)>> \o Without(Tail(cs), task_id)

\* Variant: get_result that removes the entry whatever clear is
GetResult_pop(task_id, clear) ==
    /\ polls_left > 0
    /\ polls_left' = polls_left - 1
    /\ returned' = [op |-> "get_result", task_id |-> task_id,
                    clear |-> clear, value |-> Lookup(task_id)]
    /\ results' = { p \in results : p[1] # task_id }
    /\ completions' = IF clear THEN Without(completions, task_id)
                      ELSE completions
    /\ UNCHANGED <<running, task_queue, unfinished_tasks, dpc, cur, future,
                   work_queue, busy, now, sframe, ncalls, nput, started,
                   stored, sched_rest>>

\* AsyncHelper.get_result
GetResult(task_id, clear) ==
    /\ polls_left > 0
    /\ polls_left' = polls_left - 1
    /\ returned' = [op |-> "get_result", task_id |-> task_id,
                    clear |-> clear, value |-> Lookup(task_id)]
    /\ results' = IF clear THEN { p \in results : p[1] # task_id }
                  ELSE results
    /\ completions' = IF clear THEN Without(completions, task_id)
                      ELSE completions
    /\ UNCHANGED <<running, task_queue, unfinished_tasks, dpc, cur, future,
                   work_queue, busy, now, sframe, ncalls, nput, started,
                   stored, sched_rest>>

\* AsyncHelper.clear_results
ClearResults ==
    /\ polls_left > 0
    /\ polls_left' = polls_left - 1
    /\ returned' = [NoPoll EXCEPT !.op = "clear_results"]
    /\ results' = {}
    /\ completions' = <<>>
    /\ UNCHANGED <<running, task_queue, unfinished_tasks, dpc, cur, future,
                   work_queue, busy, now, sframe, ncalls, nput, started,
                   stored, sched_rest>>

\* The crop controller as constructed, with nothing calling it
CropAtRest ==
    /\ InitCommon
    /\ current_crop = None
    /\ target_crop = None
    /\ ticks_left = 0
    /\ calls_left = 0
    /\ start_crop = None

Call(t, priority, task_id, func) ==
    [thread |-> t, priority |-> priority, task_id |-> task_id, func |-> func]

\* Calls of schedule_task by two threads: explicit and default task ids,
\* callables that return, return None, raise and hang
Calls ==
    { Call("s1", 1, <<98>>, "f"),
      Call("s1", 1, <<97>>, "g"),
      Call("s1", 1, None, "f"),
      Call("s1", 0, <<97>>, "hangs"),
      Call("s2", 1, <<97>>, "f"),
      Call("s2", 2, <<98>>, "fails"),
      Call("s2", 1, <<97>>, "quiet") }

\* A scheduler of one or two workers, and MaxSubmits calls of schedule_task
InitSched ==
    /\ CropAtRest
    /\ BufAtRest
    /\ FocusAtRest
    /\ \E n \in 1..2 : SchedInit([k \in 1..MaxSubmits |-> Calls], n, 0)
    /\ now = ClockStart

\* Submission and dispatch of callables that return
NextRun ==
    \/ \E t \in Submitters : \E d \in menu[Min(ncalls + 1, Len(menu))] :
           ScheduleBegin(t, d)
    \/ \E t \in Submitters : SchedulePut(t)
    \/ Dequeue
    \/ Submit
    \/ WorkerTake
    \/ FutureResult

NextDispatch == Start \/ NextRun

\* Submission and dispatch of callables that may fail
NextSched ==
    \/ NextDispatch
    \/ \E w \in busy : WorkerFinish(w)
    \/ FutureException
    \/ FutureTimeout

SpecSched == InitSched /\ [][NextSched]_vars

\* Calls of schedule_task whose results are polled: two callables under
\* one task id, a callable that returns None, a default task id
PollCalls ==
    { Call("s1", 1, <<97>>, "f"),
      Call("s1", 1, <<97>>, "g"),
      Call("s1", 1, <<97>>, "quiet"),
      Call("s2", 1, None, "g") }

\* A scheduler of two workers, MaxSubmits calls of schedule_task and
\* MaxPolls calls of get_result / clear_results
InitPoll ==
    /\ CropAtRest
    /\ BufAtRest
    /\ FocusAtRest
    /\ SchedInit([k \in 1..MaxSubmits |-> PollCalls], 2, MaxPolls)
    /\ now = ClockStart

NextPoll ==
    \/ NextDispatch
    \/ \E i \in PollIds : \E c \in BOOLEAN : GetResult(i, c)
    \/ ClearResults

SpecPoll == InitPoll /\ [][NextPoll]_vars

\* Calls of schedule_task by one thread, two of them with the same priority
\* and the same task id for different callables
HeapCalls ==
    { Call("s1", 1, <<98>>, "quiet"),
      Call("s1", 1, <<98>>, "silent"),
      Call("s1", 2, <<99>>, "quiet") }

\* A scheduler of one worker, and HeapSubmits calls of schedule_task
InitHeap ==
    /\ CropAtRest
    /\ BufAtRest
    /\ FocusAtRest
    /\ SchedInit([k \in 1..HeapSubmits |-> HeapCalls], 1, 0)
    /\ now = ClockStart

SpecHeap == InitHeap /\ [][NextDispatch]_vars

\* test_async_helper, "Testing priority scheduling": the number of tasks
\* scheduled at priority 2 before the one at priority 0
low_priority_tasks == 5

JobName(k) ==
    CASE k = 1 -> "job1" [] k = 2 -> "job2" [] k = 3 -> "job3"
      [] k = 4 -> "job4" [] k = 5 -> "job5" [] OTHER -> "job6"

\* The calls of the priority test, all by one thread with default task ids
PriorityTest ==
    [k \in 1..(low_priority_tasks + 1) |->
        {Call("s1", IF k <= low_priority_tasks THEN 2 ELSE 0, None,
              JobName(k))}]

\* A started scheduler of a single worker, and the calls of the priority
\* test
InitPrio ==
    /\ CropAtRest
    /\ BufAtRest
    /\ FocusAtRest
    /\ running = TRUE
    /\ task_queue = <<>>
    /\ unfinished_tasks = 0
    /\ results = {}
    /\ dpc = "loop"
    /\ cur = NoTask
    /\ future = NoFuture
    /\ work_queue = <<>>
    /\ busy = {}
    /\ max_workers = 1
    /\ sframe = [t \in Submitters |-> NoTask]
    /\ ncalls = 0
    /\ nput = 0
    /\ menu = PriorityTest
    /\ returned = NoPoll
    /\ polls_left = 0
    /\ started = {}
    /\ stored = {}
    /\ completions = <<>>
    /\ now = ClockStart

SpecPrio == InitPrio /\ [][NextRun]_vars

----------------------------------------------------------------------------
\* Properties of the scheduler

\* The dispatcher takes an entry out of the queue
DequeueStep == dpc = "loop" /\ dpc' = "submit"

\* C11: whenever the dispatcher dequeues a task, that task has the minimum
\* priority value among all tasks pending in the queue at that moment
C11_MinPriorityFirst ==
    [][DequeueStep =>
          \A i \in 1..Len(task_queue) :
              cur'.priority <= task_queue[i].priority]_vars

\* C12: among pending tasks of equal priority the dispatcher dequeues in
\* the order of submission (FIFO), whatever the task ids are
C12_FifoAmongEqualPriority ==
    [][DequeueStep =>
          \A i \in 1..Len(task_queue') :
              task_queue'[i].priority = cur'.priority
                  => task_queue'[i].sid > cur'.sid]_vars

\* C13: with a single worker, 5 tasks submitted at priority 2 and then 1 at
\* priority 0: the result of the priority-0 task becomes available before
\* the result of any priority-2 task, under every interleaving
C13_HighPriorityResultFirst ==
    (stored \cap 1..low_priority_tasks # {})
        => (low_priority_tasks + 1) \in stored

\* The largest capacity the submissions of the model can exceed
HardCapacity == MaxSubmits - 1

\* C14: the number of pending tasks never exceeds a hard capacity bound (a
\* schedule call made at the bound drops its task)
C14_ShedsLoad == pending_tasks <= HardCapacity

\* The dispatcher is through with the entry it dequeued last
ProcessedStep == dpc = "wait" /\ dpc' = "loop"

\* C15: a task that raises or exceeds the timeout does not stop the
\* scheduler: the dispatcher goes on to execute every task it dequeues, and
\* no result is stored for a task that failed or timed out
C15_FailureIsolated ==
    [][ProcessedStep =>
          /\ cur.sid \in started'
          /\ cur.sid \in stored' => Behaviour(cur.func) = "value"]_vars

\* Results that completed under task_id and were not removed since
Completed == { completions[k] : k \in 1..Len(completions) }

\* The result that completed last under task_id and was not removed since
RECURSIVE Latest(_, _)
Latest(cs, task_id) ==
    IF cs = <<>> THEN PyNone
    ELSE IF cs[Len(cs)][1] = task_id THEN cs[Len(cs)][2]
    ELSE Latest(SubSeq(cs, 1, Len(cs) - 1), task_id)

\* A call of get_result returns
PollStep == polls_left' = polls_left - 1 /\ returned'.op = "get_result"

\* C16 as stated: once a task with id i has completed with result r,
\* get_result(i) finds r until a get_result(i, clear=True) or clear_results
\* has removed it
C16_PollFindsResult == \A p \in Completed : Lookup(p[1]) = p[2]

\* C16 as amended: get_result(i) finds the result of the task that
\* completed last under id i; with clear=False the call returns it and
\* leaves results as it is, with clear=True it returns it and removes it,
\* so that the next get_result(i) returns None; a result stays stored
\* until such a call, clear_results, or a later result under the same id
C16_PollFindsLatestResult ==
    [][/\ \A p \in Completed' :
              Find(results', p[1]) = Latest(completions', p[1])
       /\ \A p \in results' : p \in Completed'
       /\ PollStep =>
             /\ returned'.value = Latest(completions, returned'.task_id)
             /\ IF returned'.clear
                THEN /\ Find(results', returned'.task_id) = PyNone
                     /\ results' = results \ {<<returned'.task_id,
                                               returned'.value>>}
                ELSE results' = results]_vars

\* A poll with clear=False has returned a result and left it stored while
\* an older result under the same id was replaced
C16_Witness ==
    /\ returned.op = "get_result"
    /\ ~returned.clear
    /\ returned.value # PyNone
    /\ Lookup(returned.task_id) = returned.value
    /\ stored # {}
    /\ Len(completions) >= 2

----------------------------------------------------------------------------
(***************************************************************************)
(* Part 3: core/frame_buffer.py (FrameBuffer).                             *)
(*                                                                         *)
(* A frame is the tuple <<k>> for the k-th frame the camera produced, and  *)
(* None is <<>>.  FrameBuffer._frames is a queue.Queue: put_nowait and     *)
(* get_nowait are atomic, each under the queue's own mutex.  The lock of   *)
(* the latest frame is taken by a with statement: a thread waits at the    *)
(* acquire step until the lock is free.                                    *)
(***************************************************************************)

\* Bounds of the frame buffer model
MaxBufCalls == 4
MaxBufferSize == 2

\* Variant: a queue that reports Full one frame late
Full_late == buffer_size > 0 /\ Len(frames) > buffer_size

\* queue.Queue.put_nowait raises queue.Full
Full == buffer_size > 0 /\ Len(frames) >= buffer_size

\* FrameBuffer.is_empty
is_empty == frames = <<>> /\ latest_frame = None

\* FrameBuffer.size
size == Len(frames)

\* add_frame(frame) is called with the next frame of the camera; a frame that
\* is None is ignored
AddCall(t) ==
    /\ t \in Publishers
    /\ bpc[t] = "idle"
    /\ buf_calls_left > 0
    /\ bpc' = [bpc EXCEPT ![t] = IF <<nframes + 1>> # None THEN "add_acquire" ELSE "idle"]
    /\ bframe' = [bframe EXCEPT ![t] = <<nframes + 1>>]
    /\ buf_calls_left' = buf_calls_left - 1
    /\ nframes' = nframes + 1
    /\ clear_alone' = FALSE
    /\ UNCHANGED <<frames, latest_frame, latest_frame_lock, buffer_size,
                   last_swap, crop_vars, sched_vars,
                   focus_vars>>

\* add_frame, line 32: with self._latest_frame_lock
AddAcquire(t) ==
    /\ bpc[t] = "add_acquire"
    /\ latest_frame_lock = "free"
    /\ latest_frame_lock' = t
    /\ bpc' = [bpc EXCEPT ![t] = "add_swap"]
    /\ clear_alone' = FALSE
    /\ UNCHANGED <<frames, latest_frame, buffer_size, bframe, buf_calls_left,
                   nframes, last_swap, crop_vars, sched_vars,
                   focus_vars>>

\* add_frame, line 33
AddSwap(t) ==
    /\ bpc[t] = "add_swap"
    /\ latest_frame' = bframe[t]
    /\ bpc' = [bpc EXCEPT ![t] = "add_release"]
    /\ last_swap' = bframe[t]
    /\ clear_alone' = FALSE
    /\ UNCHANGED <<frames, latest_frame_lock, buffer_size, bframe,
                   buf_calls_left, nframes, crop_vars, sched_vars,
                   focus_vars>>

\* add_frame, end of the with statement
AddRelease(t) ==
    /\ bpc[t] = "add_release"
    /\ latest_frame_lock' = "free"
    /\ bpc' = [bpc EXCEPT ![t] = "add_put"]
    /\ clear_alone' = FALSE
    /\ UNCHANGED <<frames, latest_frame, buffer_size, bframe, buf_calls_left,
                   nframes, last_swap, crop_vars, sched_vars,
                   focus_vars>>

\* add_frame, lines 36-38: put_nowait, or queue.Full
AddPut(t) ==
    /\ bpc[t] = "add_put"
    /\ frames' = IF Full THEN frames ELSE Append(frames, bframe[t])
    /\ bpc' = [bpc EXCEPT ![t] = IF Full THEN "add_get" ELSE "idle"]
    /\ bframe' = [bframe EXCEPT ![t] = IF Full THEN bframe[t] ELSE None]
    /\ clear_alone' = FALSE
    /\ UNCHANGED <<latest_frame, latest_frame_lock, buffer_size,
                   buf_calls_left, nframes, last_swap, crop_vars, sched_vars,
                   focus_vars>>

\* add_frame, lines 40-41: get_nowait removes the oldest frame; queue.Empty
\* ends the call
AddGet(t) ==
    /\ bpc[t] = "add_get"
    /\ frames' = IF frames = <<>> THEN frames ELSE Tail(frames)
    /\ bpc' = [bpc EXCEPT ![t] = IF frames = <<>> THEN "idle" ELSE "add_put2"]
    /\ bframe' = [bframe EXCEPT ![t] = IF frames = <<>> THEN None ELSE bframe[t]]
    /\ clear_alone' = FALSE
    /\ UNCHANGED <<latest_frame, latest_frame_lock, buffer_size,
                   buf_calls_left, nframes, last_swap, crop_vars, sched_vars,
                   focus_vars>>

\* add_frame, lines 42-44: put_nowait again; queue.Full is passed over
AddPut2(t) ==
    /\ bpc[t] = "add_put2"
    /\ frames' = IF Full THEN frames ELSE Append(frames, bframe[t])
    /\ bpc' = [bpc EXCEPT ![t] = "idle"]
    /\ bframe' = [bframe EXCEPT ![t] = None]
    /\ clear_alone' = FALSE
    /\ UNCHANGED <<latest_frame, latest_frame_lock, buffer_size,
                   buf_calls_left, nframes, last_swap, crop_vars, sched_vars,
                   focus_vars>>

\* get_latest_frame is called
GetCall(t) ==
    /\ t \in Readers
    /\ bpc[t] = "idle"
    /\ buf_calls_left > 0
    /\ bpc' = [bpc EXCEPT ![t] = "get_acquire"]
    /\ bframe' = [bframe EXCEPT ![t] = None]
    /\ buf_calls_left' = buf_calls_left - 1
    /\ UNCHANGED <<frames, latest_frame, latest_frame_lock, buffer_size,
                   nframes, last_swap, clear_alone, crop_vars, sched_vars,
                   focus_vars>>

\* get_latest_frame, line 48
GetAcquire(t) ==
    /\ bpc[t] = "get_acquire"
    /\ latest_frame_lock = "free"
    /\ latest_frame_lock' = t
    /\ bpc' = [bpc EXCEPT ![t] = "get_read"]
    /\ UNCHANGED <<frames, latest_frame, buffer_size, bframe, buf_calls_left,
                   nframes, last_swap, clear_alone, crop_vars, sched_vars,
                   focus_vars>>

\* Variant: get_latest_frame that takes the oldest buffered frame
GetRead_oldest(t) ==
    /\ bpc[t] = "get_read"
    /\ bframe' = [bframe EXCEPT ![t] =
                      IF frames # <<>> THEN Head(frames) ELSE latest_frame]
    /\ bpc' = [bpc EXCEPT ![t] = "get_release"]
    /\ UNCHANGED <<frames, latest_frame, latest_frame_lock, buffer_size,
                   buf_calls_left, nframes, last_swap, clear_alone,
                   crop_vars, sched_vars,
                   focus_vars>>

\* get_latest_frame, line 49: the value to return
GetRead(t) ==
    /\ bpc[t] = "get_read"
    /\ bpc' = [bpc EXCEPT ![t] = "get_release"]
    /\ bframe' = [bframe EXCEPT ![t] = latest_frame]
    /\ UNCHANGED <<frames, latest_frame, latest_frame_lock, buffer_size,
                   buf_calls_left, nframes, last_swap, clear_alone,
                   crop_vars, sched_vars,
                   focus_vars>>

\* Variant: get_latest_frame that returns without releasing the lock
GetRelease_hold(t) ==
    /\ bpc[t] = "get_release"
    /\ bpc' = [bpc EXCEPT ![t] = "idle"]
    /\ UNCHANGED <<frames, latest_frame, latest_frame_lock, buffer_size,
                   bframe, buf_calls_left, nframes, last_swap, clear_alone,
                   crop_vars, sched_vars,
                   focus_vars>>

\* get_latest_frame, end of the with statement and return
GetRelease(t) ==
    /\ bpc[t] = "get_release"
    /\ latest_frame_lock' = "free"
    /\ bpc' = [bpc EXCEPT ![t] = "idle"]
    /\ UNCHANGED <<frames, latest_frame, buffer_size, bframe, buf_calls_left,
                   nframes, last_swap, clear_alone, crop_vars, sched_vars,
                   focus_vars>>

\* clear is called
ClearCall(t) ==
    /\ t \in Cleaners
    /\ bpc[t] = "idle"
    /\ buf_calls_left > 0
    /\ bpc' = [bpc EXCEPT ![t] = "clear_check"]
    /\ buf_calls_left' = buf_calls_left - 1
    /\ clear_alone' = \A u \in Publishers : bpc[u] = "idle"
    /\ UNCHANGED <<frames, latest_frame, latest_frame_lock, buffer_size,
                   bframe, nframes, last_swap, crop_vars, sched_vars,
                   focus_vars>>

\* clear, line 53: while not self._frames.empty()
ClearCheck(t) ==
    /\ bpc[t] = "clear_check"
    /\ bpc' = [bpc EXCEPT ![t] = IF frames = <<>> THEN "clear_acquire" ELSE "clear_get"]
    /\ UNCHANGED <<frames, latest_frame, latest_frame_lock, buffer_size,
                   bframe, buf_calls_left, nframes, last_swap, clear_alone,
                   crop_vars, sched_vars,
                   focus_vars>>

\* clear, lines 54-57: get_nowait; queue.Empty leaves the loop
ClearGet(t) ==
    /\ bpc[t] = "clear_get"
    /\ frames' = IF frames = <<>> THEN frames ELSE Tail(frames)
    /\ bpc' = [bpc EXCEPT ![t] = IF frames = <<>> THEN "clear_acquire" ELSE "clear_check"]
    /\ UNCHANGED <<latest_frame, latest_frame_lock, buffer_size, bframe,
                   buf_calls_left, nframes, last_swap, clear_alone,
                   crop_vars, sched_vars,
                   focus_vars>>

\* clear, line 58
ClearAcquire(t) ==
    /\ bpc[t] = "clear_acquire"
    /\ latest_frame_lock = "free"
    /\ latest_frame_lock' = t
    /\ bpc' = [bpc EXCEPT ![t] = "clear_assign"]
    /\ UNCHANGED <<frames, latest_frame, buffer_size, bframe, buf_calls_left,
                   nframes, last_swap, clear_alone, crop_vars, sched_vars,
                   focus_vars>>

\* Variant: clear that leaves the latest frame in place
ClearAssign_keep(t) ==
    /\ bpc[t] = "clear_assign"
    /\ bpc' = [bpc EXCEPT ![t] = "clear_release"]
    /\ UNCHANGED <<frames, latest_frame, latest_frame_lock, buffer_size,
                   bframe, buf_calls_left, nframes, last_swap, clear_alone,
                   crop_vars, sched_vars,
                   focus_vars>>

\* clear, line 59
ClearAssign(t) ==
    /\ bpc[t] = "clear_assign"
    /\ latest_frame' = None
    /\ bpc' = [bpc EXCEPT ![t] = "clear_release"]
    /\ last_swap' = None
    /\ UNCHANGED <<frames, latest_frame_lock, buffer_size, bframe,
                   buf_calls_left, nframes, clear_alone, crop_vars,
                   sched_vars, focus_vars>>

\* clear, end of the with statement and return
ClearRelease(t) ==
    /\ bpc[t] = "clear_release"
    /\ latest_frame_lock' = "free"
    /\ bpc' = [bpc EXCEPT ![t] = "idle"]
    /\ UNCHANGED <<frames, latest_frame, buffer_size, bframe, buf_calls_left,
                   nframes, last_swap, clear_alone, crop_vars, sched_vars,
                   focus_vars>>

\* A step of thread t in add_frame
AddStep(t) ==
    \/ AddCall(t)
    \/ AddAcquire(t)
    \/ AddSwap(t)
    \/ AddRelease(t)
    \/ AddPut(t)
    \/ AddGet(t)
    \/ AddPut2(t)

\* A step of thread t in get_latest_frame
GetStep(t) == GetCall(t) \/ GetAcquire(t) \/ GetRead(t) \/ GetRelease(t)

\* A step of thread t in clear
ClearStep(t) ==
    \/ ClearCall(t)
    \/ ClearCheck(t)
    \/ ClearGet(t)
    \/ ClearAcquire(t)
    \/ ClearAssign(t)
    \/ ClearRelease(t)

\* A FrameBuffer of 1..MaxBufferSize frames, and MaxBufCalls calls
InitBuf ==
    /\ CropAtRest
    /\ SchedAtRest
    /\ FocusAtRest
    /\ \E n \in 1..MaxBufferSize : BufInit(n, MaxBufCalls)

\* Publishers and readers
NextAdd ==
    \/ \E t \in Publishers : AddStep(t)
    \/ \E t \in Readers : GetStep(t)

SpecBufAdd == InitBuf /\ [][NextAdd]_vars

\* Publishers, readers and a thread that clears
NextBuf == NextAdd \/ \E t \in Cleaners : ClearStep(t)

SpecBuf == InitBuf /\ [][NextBuf]_vars

\* Steps inside the critical section of the latest frame's lock
Critical ==
    {"add_swap", "add_release", "get_read", "get_release",
     "clear_assign", "clear_release"}

\* No add_frame call is in progress
PublishersIdle == \A t \in Publishers : bpc[t] = "idle"

\* C17: the frame get_latest_frame returns is, at the moment it returns, the
\* frame of the add_frame whose locked swap was the last one (None when no
\* swap happened since construction or since the last clear): in particular
\* the frame v of an add_frame(v) that was the last call before it, and never
\* the frame of an earlier swap.
C17_NewestWins ==
    \A t \in Readers : bpc[t] = "get_release" => bframe[t] = last_swap

C17_Witness ==
    /\ bpc["detect"] = "get_release"
    /\ bframe["detect"] # None
    /\ bframe["detect"] = last_swap
    /\ Len(frames) >= 2
    /\ Head(frames) # last_swap

\* C18: under every interleaving of add_frame calls the size never exceeds
\* buffer_size; the only frame a step ever removes is the oldest buffered
\* one and a new frame goes behind the others; once buffer_size or more
\* add_frame calls have returned and none is in progress the size is exactly
\* buffer_size; a buffer that holds a frame has a latest frame.
C18_BoundedDropOldest ==
    [][ /\ size' <= buffer_size
        /\ Len(frames') < Len(frames) => frames' = Tail(frames)
        /\ Len(frames') > Len(frames) =>
               \E t \in Publishers : frames' = Append(frames, bframe[t])
        /\ (PublishersIdle' /\ nframes' >= buffer_size) => size' = buffer_size
        /\ frames' # <<>> => latest_frame' # None ]_vars

C18_Witness ==
    /\ PublishersIdle
    /\ nframes > buffer_size
    /\ buffer_size = MaxBufferSize
    /\ size = buffer_size
    /\ Head(frames) # <<1>>
    /\ latest_frame = <<nframes>>

\* The state of a new FrameBuffer
EmptyState == is_empty /\ size = 0 /\ latest_frame = None

\* C19: until the first add_frame the buffer is empty and get_latest_frame
\* returns None; when a clear() during which no add_frame was in progress
\* has returned, the buffer is empty again, until the next add_frame.
C19_EmptyAfterClear ==
    /\ nframes = 0 =>
           /\ EmptyState
           /\ \A t \in Readers : bpc[t] = "get_release" => bframe[t] = None
    /\ (clear_alone /\ \A t \in Cleaners : bpc[t] = "idle") => EmptyState

C19_Witness ==
    /\ clear_alone
    /\ bpc["cleaner"] = "idle"
    /\ nframes >= 2
    /\ EmptyState

\* C20: the lock of the latest frame is held only by a thread inside the
\* critical section, so a thread paused anywhere else holds nothing; a
\* thread inside the critical section can always take its next step; and a
\* publisher or a reader that is in a call can take its next step whenever
\* no other thread is inside the critical section.
C20_NonBlocking ==
    /\ latest_frame_lock # "free" => bpc[latest_frame_lock] \in Critical
    /\ \A t \in Publishers :
           (bpc[t] # "idle" /\ (bpc[t] \in Critical
               \/ \A u \in BufThreads \ {t} : bpc[u] \notin Critical))
           => ENABLED AddStep(t)
    /\ \A t \in Readers :
           (bpc[t] # "idle" /\ (bpc[t] \in Critical
               \/ \A u \in BufThreads \ {t} : bpc[u] \notin Critical))
           => ENABLED GetStep(t)

C20_Witness ==
    /\ bpc["detect"] = "get_acquire"
    /\ nframes >= 2
    /\ bpc["capture"] = "add_acquire"
    /\ bpc["capture2"] = "add_get"
    /\ latest_frame_lock = "free"
    /\ ENABLED AddStep("capture")

----------------------------------------------------------------------------
(***************************************************************************)
(* Part 4: the hardware write of the crop tick, core/distance_sensor.py,   *)
(* core/voice_controller.py and the focus path of main.py.                 *)
(***************************************************************************)

\* C21: while the crop tick is about to call set_controls with a ScalerCrop
\* value it does not hold the controller lock, and set_zoom_level can take
\* the lock.
C21_EmitOutsideLock ==
    pc["crop"] = "emit" =>
        /\ lock # "crop"
        /\ (pc["voice"] = "idle" /\ calls_left > 0) =>
               ENABLED SetZoomAcquire("voice", "EYES")

\* Bounds of the focus model
MaxMapCalls == 6
MaxReads == 3
MaxFocusReads == 2
MaxTexts == 2
MaxFocusTexts == 1
MaxLensCalls == 2

\* Distances given to the mapping: below, at, between and above the
\* calibration points
MapDistances == {100, 329, 340, 380, 450, 607, 700, 871, 2000}

\* sensor.distance * 100, in tenths of a centimetre: nearer than the range,
\* inside it and beyond it
Readings == {100, 450, 2000}

\* What a read of the sensor does: it gives a value or raises
Reads ==
    { [ok |-> TRUE, value |-> v] : v \in Readings }
        \cup { [ok |-> FALSE, value |-> 0] }

\* Texts the recognizer delivers: "Show my EYE", "face and lips",
\* "Zoom Out", "focus", "zoom", "hello"
Texts ==
    { <<83, 104, 111, 119, 32, 109, 121, 32, 69, 89, 69>>,
      <<102, 97, 99, 101, 32, 97, 110, 100, 32, 108, 105, 112, 115>>,
      <<90, 111, 111, 109, 32, 79, 117, 116>>,
      <<102, 111, 99, 117, 115>>,
      <<122, 111, 111, 109>>,
      <<104, 101, 108, 108, 111>> }

\* f"focus_update_{current_time}" and f"cmd_{command.name}_{time}": the
\* first letter of the prefix, the number of the command, the time
focus_task_id(t) == <<102>> \o Str(t)
cmd_task_id(name, t) ==
    <<99>> \o <<48 + (CHOOSE i \in 1..Len(VoiceCommand) :
                         VoiceCommand[i].name = name)>> \o Str(t)

\* _map_distance_to_focus(distance)
MapCall(distance) ==
    /\ map_calls_left > 0
    /\ map_calls_left' = map_calls_left - 1
    /\ map_arg' = distance
    /\ focus_history' = map_history(focus_history, distance)
    /\ focus_ret' = map_return(focus_history, distance)
    /\ UNCHANGED <<ds_running, current_distance, measured, spc, sfocus,
                   task_arg, LensPosition, vtext, vsubmitted, good_reads,
                   last_read_ok, lens_calls_left, reads_left, texts_left,
                   crop_running, crop_stop_pc, crop_stop_ticks, ds_stop_pc,
                   ds_stop_reads, write_failures, current_face_data,
                   loop_face, handed, got_face, fpc, frames_left,
                   face_gets_left, display_zoom, sw_crop, sw_calls_left,
                   mono, last_update_time, should_ret, current_time, tpc,
                   rate_steps_left, mpc, main_running,
                   distance_sensor_initialized, voice_controller_initialized,
                   shutdown_requested, crop_vars, sched_vars, buf_vars>>

\* A DistanceSensor whose mapping is called MaxMapCalls times
InitMap ==
    /\ CropAtRest
    /\ SchedAtRest
    /\ BufAtRest
    /\ FocusInit(MaxMapCalls, 0, 0, 0, FALSE)
    /\ FaceAtRest
    /\ RateAtRest
    /\ MainAtRest

NextMap == \E d \in MapDistances : MapCall(d)

SpecMap == InitMap /\ [][NextMap]_vars

\* DistanceSensor.start
SensorStart ==
    /\ ~ds_running
    /\ spc = "off"
    /\ ds_running' = TRUE
    /\ spc' = "while"
    /\ UNCHANGED <<current_distance, focus_history, measured, sfocus,
                   task_arg, LensPosition, vtext, vsubmitted, focus_ret,
                   map_arg, good_reads, last_read_ok, map_calls_left,
                   lens_calls_left, reads_left, texts_left, crop_running,
                   crop_stop_pc, crop_stop_ticks, ds_stop_pc, ds_stop_reads,
                   write_failures, current_face_data, loop_face, handed,
                   got_face, fpc, frames_left, face_gets_left, display_zoom,
                   sw_crop, sw_calls_left, mono, last_update_time,
                   should_ret, current_time, tpc, rate_steps_left, mpc,
                   main_running, distance_sensor_initialized,
                   voice_controller_initialized, shutdown_requested,
                   crop_vars, sched_vars, buf_vars>>

\* DistanceSensor.stop, line 228; it then joins the thread and closes the sensor,
\* which nothing reads once the thread has ended
SensorStop ==
    /\ ds_running
    /\ ds_running' = FALSE
    /\ ds_stop_pc' = spc
    /\ ds_stop_reads' = reads_left
    /\ UNCHANGED <<current_distance, focus_history, measured, spc, sfocus,
                   task_arg, LensPosition, vtext, vsubmitted, focus_ret,
                   map_arg, good_reads, last_read_ok, map_calls_left,
                   lens_calls_left, reads_left, texts_left, crop_running,
                   crop_stop_pc, crop_stop_ticks, write_failures,
                   current_face_data, loop_face, handed, got_face, fpc,
                   frames_left, face_gets_left, display_zoom, sw_crop,
                   sw_calls_left, mono, last_update_time, should_ret,
                   current_time, tpc, rate_steps_left, mpc, main_running,
                   distance_sensor_initialized, voice_controller_initialized,
                   shutdown_requested, crop_vars, sched_vars, buf_vars>>

\* Variant: the loop does not look at the flag
SensorWhile_deaf ==
    /\ spc = "while"
    /\ reads_left > 0
    /\ spc' = "measure"
    /\ now' = now + 1
    /\ reads_left' = reads_left - 1
    /\ UNCHANGED <<ds_running, current_distance, focus_history, measured,
                   sfocus, task_arg, LensPosition, vtext, vsubmitted,
                   focus_ret, map_arg, good_reads, last_read_ok,
                   map_calls_left, lens_calls_left, texts_left, crop_running,
                   crop_stop_pc, crop_stop_ticks, ds_stop_pc, ds_stop_reads,
                   write_failures, current_face_data, loop_face, handed,
                   got_face, fpc, frames_left, face_gets_left, display_zoom,
                   sw_crop, sw_calls_left, mono, last_update_time,
                   should_ret, current_time, tpc, rate_steps_left, mpc,
                   main_running, distance_sensor_initialized,
                   voice_controller_initialized, shutdown_requested, running,
                   task_queue, unfinished_tasks, results, dpc, cur, future,
                   work_queue, busy, max_workers, sframe, ncalls, nput, menu,
                   returned, polls_left, started, stored, completions,
                   crop_vars, buf_vars>>

\* _sensor_loop, lines 150-154: the test of the flag, and the clock; an
\* iteration that comes before the sample interval has passed changes nothing
SensorWhile ==
    /\ spc = "while"
    /\ ds_running => reads_left > 0
    /\ spc' = IF ds_running THEN "measure" ELSE "done"
    /\ now' = IF ds_running THEN now + 1 ELSE now
    /\ reads_left' = IF ds_running THEN reads_left - 1 ELSE reads_left
    /\ UNCHANGED <<ds_running, current_distance, focus_history, measured,
                   sfocus, task_arg, LensPosition, vtext, vsubmitted,
                   focus_ret, map_arg, good_reads, last_read_ok,
                   map_calls_left, lens_calls_left, texts_left, crop_running,
                   crop_stop_pc, crop_stop_ticks, ds_stop_pc, ds_stop_reads,
                   write_failures, current_face_data, loop_face, handed,
                   got_face, fpc, frames_left, face_gets_left, display_zoom,
                   sw_crop, sw_calls_left, mono, last_update_time,
                   should_ret, current_time, tpc, rate_steps_left, mpc,
                   main_running, distance_sensor_initialized,
                   voice_controller_initialized, shutdown_requested, running,
                   task_queue, unfinished_tasks, results, dpc, cur, future,
                   work_queue, busy, max_workers, sframe, ncalls, nput, menu,
                   returned, polls_left, started, stored, completions,
                   crop_vars, buf_vars>>

\* Variant: a failed read gives the nearest distance of the range
SensorMeasure_min(r) ==
    /\ spc = "measure"
    /\ current_distance' = IF ~r.ok THEN min_distance
                           ELSE clamp_distance(r.value)
    /\ measured' = (measured \/ r.ok)
    /\ good_reads' = IF ~r.ok THEN good_reads ELSE good_reads + 1
    /\ last_read_ok' = r.ok
    /\ spc' = "map"
    /\ UNCHANGED <<ds_running, focus_history, sfocus, task_arg, LensPosition,
                   vtext, vsubmitted, focus_ret, map_arg, map_calls_left,
                   lens_calls_left, reads_left, texts_left, crop_running,
                   crop_stop_pc, crop_stop_ticks, ds_stop_pc, ds_stop_reads,
                   write_failures, current_face_data, loop_face, handed,
                   got_face, fpc, frames_left, face_gets_left, display_zoom,
                   sw_crop, sw_calls_left, mono, last_update_time,
                   should_ret, current_time, tpc, rate_steps_left, mpc,
                   main_running, distance_sensor_initialized,
                   voice_controller_initialized, shutdown_requested,
                   crop_vars, sched_vars, buf_vars>>

\* _sensor_loop, lines 157-158, and _measure_distance: r is what
\* sensor.distance * 100 gives, or that reading it raises
SensorMeasure(r) ==
    /\ spc = "measure"
    /\ current_distance' = IF ~r.ok THEN current_distance
                           ELSE clamp_distance(r.value)
    /\ measured' = (measured \/ r.ok)
    /\ good_reads' = IF ~r.ok THEN good_reads ELSE good_reads + 1
    /\ last_read_ok' = r.ok
    /\ spc' = "map"
    /\ UNCHANGED <<ds_running, focus_history, sfocus, task_arg, LensPosition,
                   vtext, vsubmitted, focus_ret, map_arg, map_calls_left,
                   lens_calls_left, reads_left, texts_left, crop_running,
                   crop_stop_pc, crop_stop_ticks, ds_stop_pc, ds_stop_reads,
                   write_failures, current_face_data, loop_face, handed,
                   got_face, fpc, frames_left, face_gets_left, display_zoom,
                   sw_crop, sw_calls_left, mono, last_update_time,
                   should_ret, current_time, tpc, rate_steps_left, mpc,
                   main_running, distance_sensor_initialized,
                   voice_controller_initialized, shutdown_requested,
                   crop_vars, sched_vars, buf_vars>>

\* _sensor_loop, line 161: focus = self._map_distance_to_focus(distance)
SensorMap ==
    /\ spc = "map"
    /\ map_arg' = current_distance
    /\ focus_history' = map_history(focus_history, current_distance)
    /\ focus_ret' = map_return(focus_history, current_distance)
    /\ sfocus' = map_return(focus_history, current_distance)
    /\ spc' = "schedule"
    /\ UNCHANGED <<ds_running, current_distance, measured, task_arg,
                   LensPosition, vtext, vsubmitted, good_reads, last_read_ok,
                   map_calls_left, lens_calls_left, reads_left, texts_left,
                   crop_running, crop_stop_pc, crop_stop_ticks, ds_stop_pc,
                   ds_stop_reads, write_failures, current_face_data,
                   loop_face, handed, got_face, fpc, frames_left,
                   face_gets_left, display_zoom, sw_crop, sw_calls_left,
                   mono, last_update_time, should_ret, current_time, tpc,
                   rate_steps_left, mpc, main_running,
                   distance_sensor_initialized, voice_controller_initialized,
                   shutdown_requested, crop_vars, sched_vars, buf_vars>>

\* _sensor_loop, lines 164-171: schedule_task with priority 3; a TypeError of
\* put_nowait is caught by the handler of the loop
SensorSchedule ==
    /\ spc = "schedule"
    /\ LET item == [priority |-> 3, task_id |-> focus_task_id(now),
                    func |-> "focus_update", sid |-> nput + 1]
           r == heappush(task_queue, item)
       IN  /\ task_queue' = r.heap
           /\ unfinished_tasks' = IF r.err THEN unfinished_tasks
                                  ELSE unfinished_tasks + 1
           /\ spc' = IF r.err THEN "while" ELSE "stats"
    /\ nput' = nput + 1
    /\ task_arg' = task_arg @@ ((nput + 1) :> sfocus)
    /\ UNCHANGED <<ds_running, current_distance, focus_history, measured,
                   sfocus, LensPosition, vtext, vsubmitted, focus_ret,
                   map_arg, good_reads, last_read_ok, map_calls_left,
                   lens_calls_left, reads_left, texts_left, crop_running,
                   crop_stop_pc, crop_stop_ticks, ds_stop_pc, ds_stop_reads,
                   write_failures, current_face_data, loop_face, handed,
                   got_face, fpc, frames_left, face_gets_left, display_zoom,
                   sw_crop, sw_calls_left, mono, last_update_time,
                   should_ret, current_time, tpc, rate_steps_left, mpc,
                   main_running, distance_sensor_initialized,
                   voice_controller_initialized, shutdown_requested, running,
                   results, dpc, cur, future, work_queue, busy, max_workers,
                   now, sframe, ncalls, menu, returned, polls_left, started,
                   stored, completions, crop_vars, buf_vars>>

\* _sensor_loop, lines 174-176: when the statistics are due and a
\* measurement was timed, _print_performance_stats calls get_current_focus
SensorStats(due) ==
    /\ spc = "stats"
    /\ map_arg' = IF due /\ measured THEN current_distance ELSE map_arg
    /\ focus_history' = IF due /\ measured
                        THEN map_history(focus_history, current_distance)
                        ELSE focus_history
    /\ focus_ret' = IF due /\ measured
                    THEN map_return(focus_history, current_distance)
                    ELSE focus_ret
    /\ spc' = "while"
    /\ UNCHANGED <<ds_running, current_distance, measured, sfocus, task_arg,
                   LensPosition, vtext, vsubmitted, good_reads, last_read_ok,
                   map_calls_left, lens_calls_left, reads_left, texts_left,
                   crop_running, crop_stop_pc, crop_stop_ticks, ds_stop_pc,
                   ds_stop_reads, write_failures, current_face_data,
                   loop_face, handed, got_face, fpc, frames_left,
                   face_gets_left, display_zoom, sw_crop, sw_calls_left,
                   mono, last_update_time, should_ret, current_time, tpc,
                   rate_steps_left, mpc, main_running,
                   distance_sensor_initialized, voice_controller_initialized,
                   shutdown_requested, crop_vars, sched_vars, buf_vars>>

\* ScalerCropController.stop, line 45; it then joins the thread
CropStop ==
    /\ crop_running
    /\ crop_running' = FALSE
    /\ crop_stop_pc' = pc["crop"]
    /\ crop_stop_ticks' = nticks
    /\ UNCHANGED <<ds_running, current_distance, focus_history, measured,
                   spc, sfocus, task_arg, LensPosition, vtext, vsubmitted,
                   focus_ret, map_arg, good_reads, last_read_ok,
                   map_calls_left, lens_calls_left, reads_left, texts_left,
                   ds_stop_pc, ds_stop_reads, write_failures,
                   current_face_data, loop_face, handed, got_face, fpc,
                   frames_left, face_gets_left, display_zoom, sw_crop,
                   sw_calls_left, mono, last_update_time, should_ret,
                   current_time, tpc, rate_steps_left, mpc, main_running,
                   distance_sensor_initialized, voice_controller_initialized,
                   shutdown_requested, crop_vars, sched_vars, buf_vars>>

\* _update_loop, line 122: the flag is clear and the loop ends
LoopExit ==
    /\ pc["crop"] = "wait"
    /\ ~crop_running
    /\ pc' = [pc EXCEPT !["crop"] = "done"]
    /\ UNCHANGED <<ds_running, current_distance, focus_history, measured,
                   spc, sfocus, task_arg, LensPosition, vtext, vsubmitted,
                   focus_ret, map_arg, good_reads, last_read_ok,
                   map_calls_left, lens_calls_left, reads_left, texts_left,
                   crop_running, crop_stop_pc, crop_stop_ticks, ds_stop_pc,
                   ds_stop_reads, write_failures, current_face_data,
                   loop_face, handed, got_face, fpc, frames_left,
                   face_gets_left, display_zoom, sw_crop, sw_calls_left,
                   mono, last_update_time, should_ret, current_time, tpc,
                   rate_steps_left, mpc, main_running,
                   distance_sensor_initialized, voice_controller_initialized,
                   shutdown_requested, current_crop, target_crop,
                   current_zoom, lock, frame, crop_settings, ScalerCrop,
                   raised, seq, branch, snap_pending, nticks, ticks_left,
                   calls_left, start_crop, sched_vars, buf_vars>>

\* VoiceController._process_command(text)
ProcessCommand(text) ==
    /\ texts_left > 0
    /\ texts_left' = texts_left - 1
    /\ vtext' = lower(text)
    /\ vsubmitted' = scan(lower(text), 1)
    /\ now' = now + 1
    /\ IF scan(lower(text), 1) = <<>>
       THEN UNCHANGED <<task_queue, unfinished_tasks, nput>>
       ELSE LET name == scan(lower(text), 1)[1]
                item == [priority |-> 1,
                         task_id |-> cmd_task_id(name, now + 1),
                         func |-> CommandFunc(name), sid |-> nput + 1]
                r == heappush(task_queue, item)
            IN  /\ task_queue' = r.heap
                /\ unfinished_tasks' = IF r.err THEN unfinished_tasks
                                       ELSE unfinished_tasks + 1
                /\ nput' = nput + 1
    /\ UNCHANGED <<ds_running, current_distance, focus_history, measured,
                   spc, sfocus, task_arg, LensPosition, focus_ret, map_arg,
                   good_reads, last_read_ok, map_calls_left, lens_calls_left,
                   reads_left, crop_running, crop_stop_pc, crop_stop_ticks,
                   ds_stop_pc, ds_stop_reads, write_failures,
                   current_face_data, loop_face, handed, got_face, fpc,
                   frames_left, face_gets_left, display_zoom, sw_crop,
                   sw_calls_left, mono, last_update_time, should_ret,
                   current_time, tpc, rate_steps_left, mpc, main_running,
                   distance_sensor_initialized, voice_controller_initialized,
                   shutdown_requested, running, results, dpc, cur, future,
                   work_queue, busy, max_workers, sframe, ncalls, menu,
                   returned, polls_left, started, stored, completions,
                   crop_vars, buf_vars>>

\* A call of CameraManager.set_focus
LensCall(focus_value) ==
    /\ lens_calls_left > 0
    /\ lens_calls_left' = lens_calls_left - 1
    /\ SetFocus(focus_value)
    /\ UNCHANGED <<ds_running, current_distance, focus_history, measured,
                   spc, sfocus, task_arg, vtext, vsubmitted, focus_ret,
                   map_arg, good_reads, last_read_ok, map_calls_left,
                   reads_left, texts_left, crop_running, crop_stop_pc,
                   crop_stop_ticks, ds_stop_pc, ds_stop_reads,
                   write_failures, current_face_data, loop_face, handed,
                   got_face, fpc, frames_left, face_gets_left, display_zoom,
                   sw_crop, sw_calls_left, mono, last_update_time,
                   should_ret, current_time, tpc, rate_steps_left, mpc,
                   main_running, distance_sensor_initialized,
                   voice_controller_initialized, shutdown_requested,
                   crop_vars, sched_vars, buf_vars>>

\* Focus values given to set_focus: below, at, inside, at and above the range
FocusProbes ==
    {5 * UNIT, 8 * UNIT, 10 * UNIT, 125 * (UNIT \div 10), 13 * UNIT}

\* The mapping and set_focus, called with the focus the mapping returned
\* last and with the probes
InitLens ==
    /\ CropAtRest
    /\ SchedAtRest
    /\ BufAtRest
    /\ FocusInit(MaxMapCalls - 3, MaxLensCalls, 0, 0, FALSE)
    /\ FaceAtRest
    /\ RateAtRest
    /\ MainAtRest

\* set_focus is given the focus the mapping returned last
LensCallMapped == focus_ret # 0 /\ LensCall(focus_ret)

NextLens ==
    \/ \E d \in MapDistances : MapCall(d)
    \/ \E v \in FocusProbes : LensCall(v)
    \/ LensCallMapped

SpecLens == InitLens /\ [][NextLens]_vars

\* SchedInit after AsyncHelper.start
SchedStarted(n) ==
    /\ running = TRUE
    /\ task_queue = <<>>
    /\ unfinished_tasks = 0
    /\ results = {}
    /\ dpc = "loop"
    /\ cur = NoTask
    /\ future = NoFuture
    /\ work_queue = <<>>
    /\ busy = {}
    /\ max_workers = n
    /\ sframe = [t \in Submitters |-> NoTask]
    /\ ncalls = 0
    /\ nput = 0
    /\ menu = <<>>
    /\ returned = NoPoll
    /\ polls_left = 0
    /\ started = {}
    /\ stored = {}
    /\ completions = <<>>
    /\ now = ClockStart

\* The voice controller and the dispatcher
InitVoice ==
    /\ CropAtRest
    /\ BufAtRest
    /\ SchedStarted(1)
    /\ FocusInit(0, 0, 0, MaxTexts, FALSE)
    /\ FaceAtRest
    /\ RateAtRest
    /\ MainAtRest

NextVoice ==
    \/ \E text \in Texts : ProcessCommand(text)
    \/ Dequeue
    \/ Submit
    \/ WorkerTake
    \/ FutureResult

SpecVoice == InitVoice /\ [][NextVoice]_vars

\* "focus" and "Zoom Out"
FocusTexts ==
    { <<102, 111, 99, 117, 115>>, <<90, 111, 111, 109, 32, 79, 117, 116>> }

\* The sensor loop, the voice controller and the dispatcher, all started
InitFocus ==
    /\ CropAtRest
    /\ BufAtRest
    /\ SchedStarted(1)
    /\ FocusInit(0, 0, MaxFocusReads, MaxFocusTexts, TRUE)
    /\ FaceAtRest
    /\ RateAtRest
    /\ MainAtRest

NextFocus ==
    \/ SensorWhile
    \/ \E r \in Reads : SensorMeasure(r)
    \/ SensorMap
    \/ SensorSchedule
    \/ \E due \in BOOLEAN : SensorStats(due)
    \/ \E text \in FocusTexts : ProcessCommand(text)
    \/ Dequeue
    \/ Submit
    \/ WorkerTake
    \/ FutureResult

SpecFocus == InitFocus /\ [][NextFocus]_vars

\* The sensor loop and the dispatcher, both started
InitSensor ==
    /\ CropAtRest
    /\ BufAtRest
    /\ SchedStarted(1)
    /\ FocusInit(0, 0, MaxReads, 0, TRUE)
    /\ FaceAtRest
    /\ RateAtRest
    /\ MainAtRest

NextSensor ==
    \/ SensorWhile
    \/ \E r \in Reads : SensorMeasure(r)
    \/ SensorMap
    \/ SensorSchedule
    \/ \E due \in BOOLEAN : SensorStats(due)
    \/ Dequeue
    \/ Submit
    \/ WorkerTake
    \/ FutureResult

SpecSensor == InitSensor /\ [][NextSensor]_vars

\* Bounds of the model of the two stops
MaxStopTicks == 2
MaxStopReads == 2

\* The crop loop with a target set and the sensor loop, both running, and
\* the stops of the two controllers
InitStop ==
    /\ InitCommon
    /\ current_crop = None
    /\ \E f \in Faces : target_crop = TargetCropFor(f, "FACE")
    /\ start_crop = None
    /\ ticks_left = MaxStopTicks
    /\ calls_left = 0
    /\ BufAtRest
    /\ SchedStarted(1)
    /\ FocusInit(0, 0, MaxStopReads, 0, TRUE)
    /\ FaceAtRest
    /\ RateAtRest
    /\ MainAtRest

NextStop ==
    \/ LoopAcquire
    \/ LoopSmooth
    \/ LoopEmit
    \/ LoopRelease
    \/ LoopExit
    \/ CropStop
    \/ SensorWhile
    \/ \E r \in Reads : SensorMeasure(r)
    \/ SensorMap
    \/ SensorSchedule
    \/ \E due \in BOOLEAN : SensorStats(due)
    \/ SensorStop

SpecStop == InitStop /\ [][NextStop]_vars

\* Bound of the model of the failing hardware write
MaxWriteTicks == 3

\* Variant: the exception of set_controls leaves the loop, which ends inside
\* the with block
LoopEmitFail_escape ==
    /\ pc["crop"] = "emit"
    /\ pc' = [pc EXCEPT !["crop"] = "done"]
    /\ write_failures' = write_failures + 1
    /\ UNCHANGED <<ds_running, current_distance, focus_history, measured,
                   spc, sfocus, task_arg, LensPosition, vtext, vsubmitted,
                   focus_ret, map_arg, good_reads, last_read_ok,
                   map_calls_left, lens_calls_left, reads_left, texts_left,
                   crop_running, crop_stop_pc, crop_stop_ticks, ds_stop_pc,
                   ds_stop_reads, current_face_data, loop_face, handed,
                   got_face, fpc, frames_left, face_gets_left, display_zoom,
                   sw_crop, sw_calls_left, mono, last_update_time,
                   should_ret, current_time, tpc, rate_steps_left, mpc,
                   main_running, distance_sensor_initialized,
                   voice_controller_initialized, shutdown_requested,
                   current_crop, target_crop, current_zoom, lock, frame,
                   crop_settings, ScalerCrop, raised, seq, branch,
                   snap_pending, nticks, ticks_left, calls_left, start_crop,
                   sched_vars, buf_vars>>

\* _update_loop, lines 130-138: set_controls raises; the handler prints and the
\* with block is left as after a write
LoopEmitFail ==
    /\ pc["crop"] = "emit"
    /\ pc' = [pc EXCEPT !["crop"] = "release"]
    /\ write_failures' = write_failures + 1
    /\ UNCHANGED <<ds_running, current_distance, focus_history, measured,
                   spc, sfocus, task_arg, LensPosition, vtext, vsubmitted,
                   focus_ret, map_arg, good_reads, last_read_ok,
                   map_calls_left, lens_calls_left, reads_left, texts_left,
                   crop_running, crop_stop_pc, crop_stop_ticks, ds_stop_pc,
                   ds_stop_reads, current_face_data, loop_face, handed,
                   got_face, fpc, frames_left, face_gets_left, display_zoom,
                   sw_crop, sw_calls_left, mono, last_update_time,
                   should_ret, current_time, tpc, rate_steps_left, mpc,
                   main_running, distance_sensor_initialized,
                   voice_controller_initialized, shutdown_requested,
                   current_crop, target_crop, current_zoom, lock, frame,
                   crop_settings, ScalerCrop, raised, seq, branch,
                   snap_pending, nticks, ticks_left, calls_left, start_crop,
                   sched_vars, buf_vars>>

\* The crop loop with a target set, the hardware write failing at will
InitWrite ==
    /\ lock = "free"
    /\ pc = [t \in Threads |-> IF t = "crop" THEN "wait" ELSE "idle"]
    /\ frame = [t \in Callers |-> NoFrame]
    /\ crop_settings = None
    /\ ScalerCrop = None
    /\ raised = FALSE
    /\ seq = 0
    /\ branch = "none"
    /\ snap_pending = FALSE
    /\ nticks = 0
    /\ current_crop = None
    /\ \E f \in Faces, z \in ZoomLevel :
           /\ current_zoom = z
           /\ target_crop = TargetCropFor(f, z)
    /\ start_crop = None
    /\ ticks_left = MaxWriteTicks
    /\ calls_left = 0
    /\ SchedAtRest
    /\ BufAtRest
    /\ FocusAtRest

NextWrite ==
    \/ LoopAcquire
    \/ LoopSmooth
    \/ LoopEmit
    \/ LoopEmitFail
    \/ LoopRelease

SpecWrite == InitWrite /\ [][NextWrite]_vars

----------------------------------------------------------------------------
\* core/face_processor.py: CameraFaceProcessor

\* Bounds of the model of the detection thread
MaxFaceFrames == 3
MaxFaceGets == 1

\* FaceProcessor.smoothing_factor, in tenths
face_smoothing_factor == 4

\* What the detector gives for a frame: the relative bounding box and the
\* relative keypoints of the first face, in units of 1/UNIT.  A face inside
\* the frame with four keypoints; the six keypoints of a face that leaves the
\* frame on the left; a face that leaves it at the bottom
Detections ==
    { [bbox |-> <<4000, 4000, 2000, 2000>>,
       landmarks |-> << <<4000, 4000>>, <<6000, 4000>>, <<5000, 5000>>,
                        <<5000, 6000>> >>],
      [bbox |-> <<0 - 1000, 3000, 4000, 4000>>,
       landmarks |-> << <<0, 4000>>, <<2000, 4000>>, <<1000, 5000>>,
                        <<1000, 6000>>, <<0 - 1000, 5000>>,
                        <<3000, 5000>> >>],
      [bbox |-> <<3000, 7000, 4000, 4000>>,
       landmarks |-> << <<4000, 8000>>, <<6000, 8000>>, <<5000, 9000>>,
                        <<5000, 11000>> >>] }

\* process_frame, lines 108-118: the bounding box is clamped to [0, 1]
process_frame(detection) ==
    IF detection = NoFaceData THEN NoFaceData
    ELSE [bbox |-> [i \in 1..4 |-> Max(0, Min(UNIT, detection.bbox[i]))],
          landmarks |-> detection.landmarks]

\* smoothing_factor * new + (1 - smoothing_factor) * current
smooth_value(new, current) ==
    RoundDiv(face_smoothing_factor * new
                 + (TENTHS - face_smoothing_factor) * current, TENTHS)

\* _smooth_face_data, lines 136-159: the smoothed FaceData
smoothed_data(current, new_data) ==
    [bbox |-> [i \in 1..4 |-> smooth_value(new_data.bbox[i], current.bbox[i])],
     landmarks |->
        [i \in 1..Len(new_data.landmarks) |->
            <<smooth_value(new_data.landmarks[i][1], current.landmarks[i][1]),
              smooth_value(new_data.landmarks[i][2], current.landmarks[i][2])>>]]

\* _processing_loop, lines 214-226: a frame has arrived, the interval has
\* passed and process_frame is called; detection is NoFaceData when the
\* detector finds no face
FaceProcess(detection) ==
    /\ fpc = "loop"
    /\ frames_left > 0
    /\ frames_left' = frames_left - 1
    /\ loop_face' = process_frame(detection)
    /\ fpc' = IF process_frame(detection) = NoFaceData THEN "loop"
            ELSE "smooth"
    /\ UNCHANGED <<ds_running, current_distance, focus_history, measured,
                   spc, sfocus, task_arg, LensPosition, vtext, vsubmitted,
                   focus_ret, map_arg, good_reads, last_read_ok,
                   map_calls_left, lens_calls_left, reads_left, texts_left,
                   crop_running, crop_stop_pc, crop_stop_ticks, ds_stop_pc,
                   ds_stop_reads, write_failures, current_face_data, handed,
                   got_face, face_gets_left, display_zoom, sw_crop,
                   sw_calls_left, mono, last_update_time, should_ret,
                   current_time, tpc, rate_steps_left, mpc, main_running,
                   distance_sensor_initialized, voice_controller_initialized,
                   shutdown_requested, crop_vars, sched_vars, buf_vars>>

\* _smooth_face_data: the first face is adopted; a face with more landmarks
\* than the current one raises IndexError at line 148, which nothing in the
\* loop catches
FaceSmooth ==
    /\ fpc = "smooth"
    /\ current_face_data' = IF current_face_data = NoFaceData THEN loop_face
                            ELSE IF Len(loop_face.landmarks)
                                      > Len(current_face_data.landmarks)
                            THEN current_face_data
                            ELSE smoothed_data(current_face_data, loop_face)
    /\ fpc' = IF current_face_data # NoFaceData
               /\ Len(loop_face.landmarks) > Len(current_face_data.landmarks)
            THEN "dead" ELSE "hand"
    /\ UNCHANGED <<ds_running, current_distance, focus_history, measured,
                   spc, sfocus, task_arg, LensPosition, vtext, vsubmitted,
                   focus_ret, map_arg, good_reads, last_read_ok,
                   map_calls_left, lens_calls_left, reads_left, texts_left,
                   crop_running, crop_stop_pc, crop_stop_ticks, ds_stop_pc,
                   ds_stop_reads, write_failures, loop_face, handed,
                   got_face, frames_left, face_gets_left, display_zoom,
                   sw_crop, sw_calls_left, mono, last_update_time,
                   should_ret, current_time, tpc, rate_steps_left, mpc,
                   main_running, distance_sensor_initialized,
                   voice_controller_initialized, shutdown_requested,
                   crop_vars, sched_vars, buf_vars>>

\* _processing_loop, line 229: update_target_crop(face_data)
FaceHand ==
    /\ fpc = "hand"
    /\ handed' = loop_face
    /\ fpc' = "loop"
    /\ UNCHANGED <<ds_running, current_distance, focus_history, measured,
                   spc, sfocus, task_arg, LensPosition, vtext, vsubmitted,
                   focus_ret, map_arg, good_reads, last_read_ok,
                   map_calls_left, lens_calls_left, reads_left, texts_left,
                   crop_running, crop_stop_pc, crop_stop_ticks, ds_stop_pc,
                   ds_stop_reads, write_failures, current_face_data,
                   loop_face, got_face, frames_left, face_gets_left,
                   display_zoom, sw_crop, sw_calls_left, mono,
                   last_update_time, should_ret, current_time, tpc,
                   rate_steps_left, mpc, main_running,
                   distance_sensor_initialized, voice_controller_initialized,
                   shutdown_requested, crop_vars, sched_vars, buf_vars>>

\* get_current_face_data
FaceGet ==
    /\ face_gets_left > 0
    /\ face_gets_left' = face_gets_left - 1
    /\ got_face' = current_face_data
    /\ UNCHANGED <<ds_running, current_distance, focus_history, measured,
                   spc, sfocus, task_arg, LensPosition, vtext, vsubmitted,
                   focus_ret, map_arg, good_reads, last_read_ok,
                   map_calls_left, lens_calls_left, reads_left, texts_left,
                   crop_running, crop_stop_pc, crop_stop_ticks, ds_stop_pc,
                   ds_stop_reads, write_failures, current_face_data,
                   loop_face, handed, fpc, frames_left, display_zoom,
                   sw_crop, sw_calls_left, mono, last_update_time,
                   should_ret, current_time, tpc, rate_steps_left, mpc,
                   main_running, distance_sensor_initialized,
                   voice_controller_initialized, shutdown_requested,
                   crop_vars, sched_vars, buf_vars>>

\* DisplayProcessor.set_zoom_level, lines 91-94: the current face data, if
\* any, is given to update_target_crop
ZoomHand ==
    /\ face_gets_left > 0
    /\ face_gets_left' = face_gets_left - 1
    /\ got_face' = current_face_data
    /\ handed' = IF current_face_data # NoFaceData THEN current_face_data
                 ELSE handed
    /\ UNCHANGED <<ds_running, current_distance, focus_history, measured,
                   spc, sfocus, task_arg, LensPosition, vtext, vsubmitted,
                   focus_ret, map_arg, good_reads, last_read_ok,
                   map_calls_left, lens_calls_left, reads_left, texts_left,
                   crop_running, crop_stop_pc, crop_stop_ticks, ds_stop_pc,
                   ds_stop_reads, write_failures, current_face_data,
                   loop_face, fpc, frames_left, display_zoom, sw_crop,
                   sw_calls_left, mono, last_update_time, should_ret,
                   current_time, tpc, rate_steps_left, mpc, main_running,
                   distance_sensor_initialized, voice_controller_initialized,
                   shutdown_requested, crop_vars, sched_vars, buf_vars>>

\* The detection thread started, the display processor calling
InitFace ==
    /\ CropAtRest
    /\ SchedAtRest
    /\ BufAtRest
    /\ FocusInit(0, 0, 0, 0, FALSE)
    /\ RateAtRest
    /\ MainAtRest
    /\ FaceInit(MaxFaceFrames, MaxFaceGets, TRUE)

NextFace ==
    \/ \E d \in Detections \cup {NoFaceData} : FaceProcess(d)
    \/ FaceSmooth
    \/ FaceHand
    \/ FaceGet
    \/ ZoomHand

SpecFace == InitFace /\ [][NextFace]_vars

----------------------------------------------------------------------------
\* core/display_processor.py: the software crop

\* Bound of the model of the two crops
MaxSoftwareCrops == 2

\* DisplayProcessor.zoom_ratios, in tenths
zoom_ratios ==
    [z \in ZoomLevel |->
        CASE z = "EYES" -> 5
          [] z = "LIPS" -> 6
          [] z = "FACE" -> 10
          [] z = "WIDE" -> 16]

\* Widths of the frames the display crops: the main stream of
\* tests/test_integration.py and a smaller preview
FrameWidths == {1100, 640}

\* _software_crop_for_display, lines 335-337: the size of the square it cuts
\* out of a frame of width w
target_size(bbox, zoom, w) ==
    LET face_w == PyInt(bbox[3] * w, UNIT)
        tsize == PyInt(face_w * zoom_ratios[zoom], TENTHS)
    IN  tsize + (tsize % 2)

\* _software_crop_for_display(frame) for a frame of width w, with the face
\* the detector delivered
SoftwareCrop(w) ==
    /\ sw_calls_left > 0
    /\ got_face # NoFaceData
    /\ sw_calls_left' = sw_calls_left - 1
    /\ sw_crop' = <<target_size(got_face.bbox, display_zoom, w), w>>
    /\ UNCHANGED <<ds_running, current_distance, focus_history, measured,
                   spc, sfocus, task_arg, LensPosition, vtext, vsubmitted,
                   focus_ret, map_arg, good_reads, last_read_ok,
                   map_calls_left, lens_calls_left, reads_left, texts_left,
                   crop_running, crop_stop_pc, crop_stop_ticks, ds_stop_pc,
                   ds_stop_reads, write_failures, current_face_data,
                   loop_face, handed, got_face, fpc, frames_left,
                   face_gets_left, display_zoom, mono, last_update_time,
                   should_ret, current_time, tpc, rate_steps_left, mpc,
                   main_running, distance_sensor_initialized,
                   voice_controller_initialized, shutdown_requested,
                   crop_vars, sched_vars, buf_vars>>

\* tests/test_integration.py, test_zoom_level_coordination: a face, a zoom
\* level set on the display processor and on the controller, the target of
\* the face computed by update_target_crop; then the ticks and the software
\* crop
InitCoord ==
    /\ lock = "free"
    /\ pc = [t \in Threads |-> IF t = "crop" THEN "wait" ELSE "idle"]
    /\ frame = [t \in Callers |-> NoFrame]
    /\ crop_settings = None
    /\ ScalerCrop = None
    /\ raised = FALSE
    /\ seq = 0
    /\ branch = "none"
    /\ snap_pending = FALSE
    /\ nticks = 0
    /\ current_crop = None
    /\ start_crop = None
    /\ ticks_left = 1
    /\ calls_left = 0
    /\ SchedAtRest
    /\ BufAtRest
    /\ FocusInit(0, 0, 0, 0, FALSE)
    /\ RateAtRest
    /\ MainAtRest
    /\ current_face_data = NoFaceData
    /\ loop_face = NoFaceData
    /\ handed = NoFaceData
    /\ fpc = "off"
    /\ frames_left = 0
    /\ face_gets_left = 0
    /\ sw_crop = <<>>
    /\ sw_calls_left = MaxSoftwareCrops
    /\ \E f \in TickFaces, z \in ZoomLevel :
           /\ got_face = f
           /\ current_zoom = z
           /\ display_zoom = z
           /\ target_crop = TargetCropFor(f, z)

NextCoord ==
    \/ LoopAcquire
    \/ LoopSmooth
    \/ LoopEmit
    \/ LoopRelease
    \/ \E w \in FrameWidths : SoftwareCrop(w)

SpecCoord == InitCoord /\ [][NextCoord]_vars

----------------------------------------------------------------------------
\* ScalerCropController: the rate limit

\* Bound of the model of the rate limit
MaxRateSteps == 6

\* ScalerCropController.min_update_interval, 0.0333 s in units of 1/10000 s
min_update_interval == 333

\* What the clock can advance by between two steps: nothing, less than the
\* interval, what is left of it, the interval, more
ClockSteps == {0, 100, 233, 333, 1000}

\* Variant: the interval has to be exceeded
interval_passed_strict(time, last) == time - last > min_update_interval

\* current_time - self.last_update_time >= self.min_update_interval
interval_passed(time, last) == time - last >= min_update_interval

\* time passes
ClockAdvance(d) ==
    /\ rate_steps_left > 0
    /\ d > 0
    /\ rate_steps_left' = rate_steps_left - 1
    /\ mono' = mono + d
    /\ UNCHANGED <<ds_running, current_distance, focus_history, measured,
                   spc, sfocus, task_arg, LensPosition, vtext, vsubmitted,
                   focus_ret, map_arg, good_reads, last_read_ok,
                   map_calls_left, lens_calls_left, reads_left, texts_left,
                   crop_running, crop_stop_pc, crop_stop_ticks, ds_stop_pc,
                   ds_stop_reads, write_failures, current_face_data,
                   loop_face, handed, got_face, fpc, frames_left,
                   face_gets_left, display_zoom, sw_crop, sw_calls_left,
                   last_update_time, should_ret, current_time, tpc, mpc,
                   main_running, distance_sensor_initialized,
                   voice_controller_initialized, shutdown_requested,
                   crop_vars, sched_vars, buf_vars>>

\* _should_update, called as the tests call it: the thread is not started
ShouldUpdate ==
    /\ rate_steps_left > 0
    /\ tpc = "off"
    /\ rate_steps_left' = rate_steps_left - 1
    /\ should_ret' = Append(should_ret, interval_passed(mono, last_update_time))
    /\ last_update_time' = IF interval_passed(mono, last_update_time) THEN mono
                           ELSE last_update_time
    /\ UNCHANGED <<ds_running, current_distance, focus_history, measured,
                   spc, sfocus, task_arg, LensPosition, vtext, vsubmitted,
                   focus_ret, map_arg, good_reads, last_read_ok,
                   map_calls_left, lens_calls_left, reads_left, texts_left,
                   crop_running, crop_stop_pc, crop_stop_ticks, ds_stop_pc,
                   ds_stop_reads, write_failures, current_face_data,
                   loop_face, handed, got_face, fpc, frames_left,
                   face_gets_left, display_zoom, sw_crop, sw_calls_left,
                   mono, current_time, tpc, mpc, main_running,
                   distance_sensor_initialized, voice_controller_initialized,
                   shutdown_requested, crop_vars, sched_vars, buf_vars>>

\* _update_loop, lines 123-126: the clock is read and the interval tested
LoopClock ==
    /\ rate_steps_left > 0
    /\ tpc = "top"
    /\ rate_steps_left' = rate_steps_left - 1
    /\ current_time' = mono
    /\ tpc' = IF interval_passed(mono, last_update_time) THEN "update"
            ELSE "top"
    /\ UNCHANGED <<ds_running, current_distance, focus_history, measured,
                   spc, sfocus, task_arg, LensPosition, vtext, vsubmitted,
                   focus_ret, map_arg, good_reads, last_read_ok,
                   map_calls_left, lens_calls_left, reads_left, texts_left,
                   crop_running, crop_stop_pc, crop_stop_ticks, ds_stop_pc,
                   ds_stop_reads, write_failures, current_face_data,
                   loop_face, handed, got_face, fpc, frames_left,
                   face_gets_left, display_zoom, sw_crop, sw_calls_left,
                   mono, last_update_time, should_ret, mpc, main_running,
                   distance_sensor_initialized, voice_controller_initialized,
                   shutdown_requested, crop_vars, sched_vars, buf_vars>>

\* _update_loop, lines 127-140: the update under the lock, then
\* self.last_update_time = current_time
LoopStamp ==
    /\ tpc = "update"
    /\ last_update_time' = current_time
    /\ tpc' = "top"
    /\ UNCHANGED <<ds_running, current_distance, focus_history, measured,
                   spc, sfocus, task_arg, LensPosition, vtext, vsubmitted,
                   focus_ret, map_arg, good_reads, last_read_ok,
                   map_calls_left, lens_calls_left, reads_left, texts_left,
                   crop_running, crop_stop_pc, crop_stop_ticks, ds_stop_pc,
                   ds_stop_reads, write_failures, current_face_data,
                   loop_face, handed, got_face, fpc, frames_left,
                   face_gets_left, display_zoom, sw_crop, sw_calls_left,
                   mono, should_ret, current_time, rate_steps_left, mpc,
                   main_running, distance_sensor_initialized,
                   voice_controller_initialized, shutdown_requested,
                   crop_vars, sched_vars, buf_vars>>

\* The controller after __init__, the clock at some time; either the thread
\* is not started and _should_update is called, or the loop runs
InitRate ==
    /\ CropAtRest
    /\ SchedAtRest
    /\ BufAtRest
    /\ FocusInit(0, 0, 0, 0, FALSE)
    /\ FaceAtRest
    /\ MainAtRest
    /\ \E start \in {0, 200, 333, 5000}, on \in BOOLEAN :
           RateInit(start, MaxRateSteps, on)

NextRate ==
    \/ \E d \in ClockSteps : ClockAdvance(d)
    \/ ShouldUpdate
    \/ LoopClock
    \/ LoopStamp

SpecRate == InitRate /\ [][NextRate]_vars

\* Bounds of the model of main: ticks of the crop loop and detections
MaxShutdownTicks == 2
MaxShutdownCalls == 1

\* main, lines 113-118 and 132-135: the start calls that set a running flag
\* and start a thread, by position, and the position that follows
StartedBy ==
    ("start_face" :> "face_processor") @@ ("start_display" :> "display_processor")
        @@ ("start_voice" :> "voice_controller")
AfterStart ==
    ("start_face" :> "start_display") @@ ("start_display" :> "start_sensor")
        @@ ("start_voice" :> "main_loop")

\* main, lines 155-186: the stop calls that clear a running flag and join,
\* by position, and the position that follows
StoppedBy ==
    ("stop_voice" :> "voice_controller") @@ ("stop_display" :> "display_processor")
        @@ ("stop_face" :> "face_processor") @@ ("stop_camera" :> "camera")
AfterStop ==
    ("stop_voice" :> "stop_sensor") @@ ("stop_display" :> "stop_face")
        @@ ("stop_face" :> "stop_camera") @@ ("stop_camera" :> "stop_helper")

\* main, line 104: AsyncHelper.start sets running and starts the dispatcher
MainStartHelper ==
    /\ mpc = "start_helper"
    /\ running' = TRUE
    /\ dpc' = "loop"
    /\ mpc' = "start_camera"
    /\ UNCHANGED <<ds_running, current_distance, focus_history, measured,
                   spc, sfocus, task_arg, LensPosition, vtext, vsubmitted,
                   focus_ret, map_arg, good_reads, last_read_ok,
                   map_calls_left, lens_calls_left, reads_left, texts_left,
                   crop_running, crop_stop_pc, crop_stop_ticks, ds_stop_pc,
                   ds_stop_reads, write_failures, current_face_data,
                   loop_face, handed, got_face, fpc, frames_left,
                   face_gets_left, display_zoom, sw_crop, sw_calls_left,
                   mono, last_update_time, should_ret, current_time, tpc,
                   rate_steps_left, main_running,
                   distance_sensor_initialized, voice_controller_initialized,
                   shutdown_requested, task_queue, unfinished_tasks, results,
                   cur, future, work_queue, busy, max_workers, now, sframe,
                   ncalls, nput, menu, returned, polls_left, started, stored,
                   completions, crop_vars, buf_vars>>

\* main, lines 106-108: CameraManager.start sets its flag; picam2.start may
\* raise (camera_manager.py, line 137), which takes main to its finally block
MainStartCamera(ok) ==
    /\ mpc = "start_camera"
    /\ main_running' = [main_running EXCEPT !["camera"] = TRUE]
    /\ mpc' = IF ok THEN "start_crop" ELSE "stop_voice"
    /\ UNCHANGED <<ds_running, current_distance, focus_history, measured,
                   spc, sfocus, task_arg, LensPosition, vtext, vsubmitted,
                   focus_ret, map_arg, good_reads, last_read_ok,
                   map_calls_left, lens_calls_left, reads_left, texts_left,
                   crop_running, crop_stop_pc, crop_stop_ticks, ds_stop_pc,
                   ds_stop_reads, write_failures, current_face_data,
                   loop_face, handed, got_face, fpc, frames_left,
                   face_gets_left, display_zoom, sw_crop, sw_calls_left,
                   mono, last_update_time, should_ret, current_time, tpc,
                   rate_steps_left, distance_sensor_initialized,
                   voice_controller_initialized, shutdown_requested,
                   crop_vars, sched_vars, buf_vars>>

\* main, line 111: ScalerCropController.start sets running and starts
\* _update_loop
MainStartCrop ==
    /\ mpc = "start_crop"
    /\ crop_running' = TRUE
    /\ pc' = [pc EXCEPT !["crop"] = "wait"]
    /\ mpc' = "start_face"
    /\ UNCHANGED <<ds_running, current_distance, focus_history, measured,
                   spc, sfocus, task_arg, LensPosition, vtext, vsubmitted,
                   focus_ret, map_arg, good_reads, last_read_ok,
                   map_calls_left, lens_calls_left, reads_left, texts_left,
                   crop_stop_pc, crop_stop_ticks, ds_stop_pc, ds_stop_reads,
                   write_failures, current_face_data, loop_face, handed,
                   got_face, fpc, frames_left, face_gets_left, display_zoom,
                   sw_crop, sw_calls_left, mono, last_update_time,
                   should_ret, current_time, tpc, rate_steps_left,
                   main_running, distance_sensor_initialized,
                   voice_controller_initialized, shutdown_requested,
                   current_crop, target_crop, current_zoom, lock, frame,
                   crop_settings, ScalerCrop, raised, seq, branch,
                   snap_pending, nticks, ticks_left, calls_left, start_crop,
                   sched_vars, buf_vars>>

\* main, lines 113-118 and 132-135: the face processor, the display
\* processor and, if it was constructed, the voice controller are started
MainStart ==
    /\ mpc \in DOMAIN StartedBy
    /\ main_running' = IF mpc = "start_voice" /\ ~voice_controller_initialized
                       THEN main_running
                       ELSE [main_running EXCEPT ![StartedBy[mpc]] = TRUE]
    /\ mpc' = AfterStart[mpc]
    /\ UNCHANGED <<ds_running, current_distance, focus_history, measured,
                   spc, sfocus, task_arg, LensPosition, vtext, vsubmitted,
                   focus_ret, map_arg, good_reads, last_read_ok,
                   map_calls_left, lens_calls_left, reads_left, texts_left,
                   crop_running, crop_stop_pc, crop_stop_ticks, ds_stop_pc,
                   ds_stop_reads, write_failures, current_face_data,
                   loop_face, handed, got_face, fpc, frames_left,
                   face_gets_left, display_zoom, sw_crop, sw_calls_left,
                   mono, last_update_time, should_ret, current_time, tpc,
                   rate_steps_left, distance_sensor_initialized,
                   voice_controller_initialized, shutdown_requested,
                   crop_vars, sched_vars, buf_vars>>

\* main, lines 120-130: if it was constructed, the distance sensor is started
MainStartSensor ==
    /\ mpc = "start_sensor"
    /\ ds_running' = distance_sensor_initialized
    /\ spc' = IF distance_sensor_initialized THEN "while" ELSE spc
    /\ mpc' = "start_voice"
    /\ UNCHANGED <<current_distance, focus_history, measured, sfocus,
                   task_arg, LensPosition, vtext, vsubmitted, focus_ret,
                   map_arg, good_reads, last_read_ok, map_calls_left,
                   lens_calls_left, reads_left, texts_left, crop_running,
                   crop_stop_pc, crop_stop_ticks, ds_stop_pc, ds_stop_reads,
                   write_failures, current_face_data, loop_face, handed,
                   got_face, fpc, frames_left, face_gets_left, display_zoom,
                   sw_crop, sw_calls_left, mono, last_update_time,
                   should_ret, current_time, tpc, rate_steps_left,
                   main_running, distance_sensor_initialized,
                   voice_controller_initialized, shutdown_requested,
                   crop_vars, sched_vars, buf_vars>>

\* signal_handler, lines 22-33: the first SIGINT or SIGTERM
SignalHandler ==
    /\ mpc \notin {"off", "complete"}
    /\ ~shutdown_requested
    /\ shutdown_requested' = TRUE
    /\ UNCHANGED <<ds_running, current_distance, focus_history, measured,
                   spc, sfocus, task_arg, LensPosition, vtext, vsubmitted,
                   focus_ret, map_arg, good_reads, last_read_ok,
                   map_calls_left, lens_calls_left, reads_left, texts_left,
                   crop_running, crop_stop_pc, crop_stop_ticks, ds_stop_pc,
                   ds_stop_reads, write_failures, current_face_data,
                   loop_face, handed, got_face, fpc, frames_left,
                   face_gets_left, display_zoom, sw_crop, sw_calls_left,
                   mono, last_update_time, should_ret, current_time, tpc,
                   rate_steps_left, mpc, main_running,
                   distance_sensor_initialized, voice_controller_initialized,
                   crop_vars, sched_vars, buf_vars>>

\* main, lines 140-141: while not shutdown_requested
MainLoop ==
    /\ mpc = "main_loop"
    /\ shutdown_requested
    /\ mpc' = "stop_voice"
    /\ UNCHANGED <<ds_running, current_distance, focus_history, measured,
                   spc, sfocus, task_arg, LensPosition, vtext, vsubmitted,
                   focus_ret, map_arg, good_reads, last_read_ok,
                   map_calls_left, lens_calls_left, reads_left, texts_left,
                   crop_running, crop_stop_pc, crop_stop_ticks, ds_stop_pc,
                   ds_stop_reads, write_failures, current_face_data,
                   loop_face, handed, got_face, fpc, frames_left,
                   face_gets_left, display_zoom, sw_crop, sw_calls_left,
                   mono, last_update_time, should_ret, current_time, tpc,
                   rate_steps_left, main_running,
                   distance_sensor_initialized, voice_controller_initialized,
                   shutdown_requested, crop_vars, sched_vars, buf_vars>>

\* main, lines 155-186: the voice controller, if it was constructed, the
\* display processor, the face processor and the camera are stopped
MainStop ==
    /\ mpc \in DOMAIN StoppedBy
    /\ main_running' = IF mpc = "stop_voice" /\ ~voice_controller_initialized
                       THEN main_running
                       ELSE [main_running EXCEPT ![StoppedBy[mpc]] = FALSE]
    /\ mpc' = AfterStop[mpc]
    /\ UNCHANGED <<ds_running, current_distance, focus_history, measured,
                   spc, sfocus, task_arg, LensPosition, vtext, vsubmitted,
                   focus_ret, map_arg, good_reads, last_read_ok,
                   map_calls_left, lens_calls_left, reads_left, texts_left,
                   crop_running, crop_stop_pc, crop_stop_ticks, ds_stop_pc,
                   ds_stop_reads, write_failures, current_face_data,
                   loop_face, handed, got_face, fpc, frames_left,
                   face_gets_left, display_zoom, sw_crop, sw_calls_left,
                   mono, last_update_time, should_ret, current_time, tpc,
                   rate_steps_left, distance_sensor_initialized,
                   voice_controller_initialized, shutdown_requested,
                   crop_vars, sched_vars, buf_vars>>

\* main, lines 162-167: if it was constructed, the distance sensor is stopped
MainStopSensor ==
    /\ mpc = "stop_sensor"
    /\ ds_running' = FALSE
    /\ mpc' = "stop_display"
    /\ UNCHANGED <<current_distance, focus_history, measured, spc, sfocus,
                   task_arg, LensPosition, vtext, vsubmitted, focus_ret,
                   map_arg, good_reads, last_read_ok, map_calls_left,
                   lens_calls_left, reads_left, texts_left, crop_running,
                   crop_stop_pc, crop_stop_ticks, ds_stop_pc, ds_stop_reads,
                   write_failures, current_face_data, loop_face, handed,
                   got_face, fpc, frames_left, face_gets_left, display_zoom,
                   sw_crop, sw_calls_left, mono, last_update_time,
                   should_ret, current_time, tpc, rate_steps_left,
                   main_running, distance_sensor_initialized,
                   voice_controller_initialized, shutdown_requested,
                   crop_vars, sched_vars, buf_vars>>

\* main, lines 188-194: async_helper.shutdown(wait=False); AsyncHelper has no
\* method shutdown, the AttributeError is caught and printed, and main prints
\* "Shutdown complete"
MainStopHelper ==
    /\ mpc = "stop_helper"
    /\ mpc' = "complete"
    /\ UNCHANGED <<ds_running, current_distance, focus_history, measured,
                   spc, sfocus, task_arg, LensPosition, vtext, vsubmitted,
                   focus_ret, map_arg, good_reads, last_read_ok,
                   map_calls_left, lens_calls_left, reads_left, texts_left,
                   crop_running, crop_stop_pc, crop_stop_ticks, ds_stop_pc,
                   ds_stop_reads, write_failures, current_face_data,
                   loop_face, handed, got_face, fpc, frames_left,
                   face_gets_left, display_zoom, sw_crop, sw_calls_left,
                   mono, last_update_time, should_ret, current_time, tpc,
                   rate_steps_left, main_running,
                   distance_sensor_initialized, voice_controller_initialized,
                   shutdown_requested, crop_vars, sched_vars, buf_vars>>

\* _processing_loop while the face processor runs: a detection is handed to
\* the crop controller
ShutdownDetect(face_data) ==
    /\ main_running["face_processor"]
    /\ ProcessingLoop(face_data)

\* main after the construction of the components (lines 43-99): nothing is
\* started, no thread runs
InitShutdown ==
    /\ current_zoom = "FACE"
    /\ lock = "free"
    /\ pc = [t \in Threads |-> "idle"]
    /\ frame = [t \in Callers |-> NoFrame]
    /\ crop_settings = None
    /\ ScalerCrop = None
    /\ raised = FALSE
    /\ seq = 0
    /\ branch = "none"
    /\ snap_pending = FALSE
    /\ nticks = 0
    /\ current_crop = None
    /\ target_crop = None
    /\ start_crop = None
    /\ ticks_left = MaxShutdownTicks
    /\ calls_left = MaxShutdownCalls
    /\ SchedAtRest
    /\ BufAtRest
    /\ ds_running = FALSE
    /\ current_distance = 0
    /\ focus_history = <<>>
    /\ measured = FALSE
    /\ spc = "off"
    /\ sfocus = 0
    /\ task_arg = <<>>
    /\ LensPosition = 0 - 1
    /\ vtext = <<>>
    /\ vsubmitted = <<>>
    /\ focus_ret = 0
    /\ map_arg = 0
    /\ good_reads = 0
    /\ last_read_ok = TRUE
    /\ map_calls_left = 0
    /\ lens_calls_left = 0
    /\ reads_left = 0
    /\ texts_left = 0
    /\ crop_running = FALSE
    /\ crop_stop_pc = ""
    /\ crop_stop_ticks = 0 - 1
    /\ ds_stop_pc = ""
    /\ ds_stop_reads = 0 - 1
    /\ write_failures = 0
    /\ FaceAtRest
    /\ RateAtRest
    /\ \E sensor \in BOOLEAN, voice \in BOOLEAN : MainInit(sensor, voice, TRUE)

NextShutdown ==
    \/ MainStartHelper
    \/ \E ok \in BOOLEAN : MainStartCamera(ok)
    \/ MainStartCrop
    \/ MainStart
    \/ MainStartSensor
    \/ SignalHandler
    \/ MainLoop
    \/ MainStop
    \/ MainStopSensor
    \/ MainStopHelper
    \/ \E f \in Faces : ShutdownDetect(f)
    \/ UpdateTargetWrite("face")
    \/ LoopAcquire
    \/ LoopSmooth
    \/ LoopEmit
    \/ LoopRelease

SpecShutdown == InitShutdown /\ [][NextShutdown]_vars

\* The calibration points of the focus interpolation scenario
example_map == (300 :> 11 * UNIT) @@ (600 :> 96 * (UNIT \div 10))
                   @@ (900 :> 95 * (UNIT \div 10))

\* The value the claim gives for a distance: the focus of the first point at
\* or below the smallest distance, of the last at or above the largest, and
\* within half a unit of the line through the two bracketing points
IsMapped(map, distance, f) ==
    LET ds == sorted(DOMAIN map)
    IN  IF distance <= ds[1] THEN f = map[ds[1]]
        ELSE IF distance >= ds[Len(ds)] THEN f = map[ds[Len(ds)]]
        ELSE \E i \in 1..(Len(ds) - 1) :
               /\ ds[i] <= distance /\ distance <= ds[i + 1]
               /\ 2 * Abs((f - map[ds[i]]) * (ds[i + 1] - ds[i])
                          - (map[ds[i + 1]] - map[ds[i]]) * (distance - ds[i]))
                    <= ds[i + 1] - ds[i]

MapStep == map_calls_left' < map_calls_left

\* C22 as claimed: every call of _map_distance_to_focus returns the clamped
\* or interpolated focus of its distance.
C22_ReturnsMappedFocus ==
    [][MapStep => IsMapped(distance_focus_map, map_arg', focus_ret')]_vars

\* C22 amended: every call pushes the clamped or interpolated focus of its
\* distance into the history, and returns exactly that value when the history
\* was empty before the call; with the points (30, 11.0), (60, 9.6),
\* (90, 9.5) the raw focus of 10 cm is 11.0, of 200 cm 9.5 and of 45 cm
\* strictly between 9.6 and 11.0.
C22_PushesMappedFocus ==
    [][MapStep =>
        /\ focus_history' # <<>>
        /\ IsMapped(distance_focus_map, map_arg',
                    focus_history'[Len(focus_history')])
        /\ focus_history = <<>> =>
               IsMapped(distance_focus_map, map_arg', focus_ret')
        /\ raw_focus_of(example_map, 100) = 11 * UNIT
        /\ raw_focus_of(example_map, 2000) = 95 * (UNIT \div 10)
        /\ raw_focus_of(example_map, 450) > 96 * (UNIT \div 10)
        /\ raw_focus_of(example_map, 450) < 11 * UNIT ]_vars

C22_Witness ==
    /\ map_arg = 380
    /\ Len(focus_history) >= 2
    /\ focus_history[Len(focus_history)] > 103 * (UNIT \div 10)
    /\ focus_history[Len(focus_history)] < 11 * UNIT
    /\ focus_ret # focus_history[Len(focus_history)]

\* C23: a call of _map_distance_to_focus appends exactly one value, the raw
\* focus, to focus_history and evicts the oldest value when there were five;
\* the history never holds more than five; the value returned is the average
\* of the history weighted by the last len(history) entries of
\* [0.1, 0.15, 0.2, 0.25, 0.3] divided by their sum, the newest value having
\* the largest weight, to within the rounding of the n products.
C23_WeightedHistory ==
    [][MapStep =>
        LET n == Len(focus_history')
            w == SubSeq(<<10, 15, 20, 25, 30>>, 6 - n, 5)
        IN  /\ n <= 5
            /\ n = IF Len(focus_history) = 5 THEN 5
                   ELSE Len(focus_history) + 1
            /\ \A i \in 1..(n - 1) :
                   focus_history'[i] = focus_history[i + Len(focus_history) + 1 - n]
            /\ IsMapped(distance_focus_map, map_arg', focus_history'[n])
            /\ \A i \in 1..(n - 1) : w[i] < w[n]
            /\ 2 * Abs(focus_ret' * SumSeq(w)
                       - SumSeq([i \in 1..n |-> focus_history'[i] * w[i]]))
                 <= n * SumSeq(w)
       ]_vars

C23_Witness ==
    /\ Len(focus_history) = 5
    /\ map_calls_left = 0
    /\ focus_history[1] # focus_history[5]
    /\ focus_ret # focus_history[5]

\* A step of the sensor loop, and the read of the sensor among them
SensorStep == spc' # spc
MeasureStep == spc = "measure" /\ spc' = "map"

InRange(distance) == min_distance <= distance /\ distance <= max_distance

\* C24: before the first successful read of the distance sensor no focus
\* update is scheduled, no lens position is sent to the camera and nothing
\* is in focus_history.
C24_NoActionBeforeSample ==
    good_reads = 0 =>
        /\ focus_history = <<>>
        /\ task_arg = <<>>
        /\ \A i \in 1..Len(task_queue) : task_queue[i].func # "focus_update"
        /\ LensPosition = 0 - 1

\* C25: the distance the loop holds as current_distance after a read, and
\* the distance it has given to the mapping, lie in
\* [min_distance, max_distance], after a failed read as well.
C25_DistanceInRange ==
    /\ spc \in {"map", "schedule", "stats"} => InRange(current_distance)
    /\ spc \in {"schedule", "stats"} => InRange(map_arg)

\* C26: a read that fails leaves current_distance as it was, which after a
\* successful read is a distance of the operating range; the loop does not
\* end while running is set: after the failed read it goes on to map and
\* schedule, every step of the loop leads to another position of the loop,
\* and the step after the test of the flag is the next read.
C26_ReadFailureContained ==
    [][ /\ (MeasureStep /\ ~last_read_ok') =>
              /\ current_distance' = current_distance
              /\ good_reads > 0 => InRange(current_distance')
              /\ spc' = "map"
        /\ (SensorStep /\ ds_running) =>
              /\ spc' \in {"measure", "map", "schedule", "stats", "while"}
              /\ spc = "while" => spc' = "measure"
              /\ spc = "map" => spc' = "schedule"
              /\ spc = "schedule" => spc' \in {"stats", "while"}
              /\ spc = "stats" => spc' = "while"
      ]_vars

\* A good read, then a failed one, then the loop is at its next read
C26_Witness ==
    /\ good_reads = 1
    /\ ~last_read_ok
    /\ current_distance = 450
    /\ spc = "measure"
    /\ reads_left = MaxReads - 3

\* C27: every lens position sent to the camera by set_focus lies in the
\* focus range [8.0, 12.5], whatever focus value set_focus was given.
C27_LensInRange ==
    LensPosition # 0 - 1 =>
        /\ 8 * UNIT <= LensPosition
        /\ LensPosition <= 125 * (UNIT \div 10)

\* set_focus was called twice, the last time with the focus the mapping
\* returned from a history of several values
C27_Witness ==
    /\ lens_calls_left = 0
    /\ Len(focus_history) >= 2
    /\ LensPosition = focus_ret
    /\ focus_ret # focus_history[Len(focus_history)]

\* A call of _process_command
VoiceStep == texts_left' < texts_left

\* C28: _process_command scans the lower-cased text and submits at most one
\* action: that of the first binding, in the order eye, lips, face,
\* zoom out, focus, whose keyword is a substring of the text; a text with no
\* keyword submits nothing and changes nothing of the queue.
C28_FirstBindingOnly ==
    [][VoiceStep =>
        LET hits == {i \in 1..Len(VoiceCommand) :
                        Contains(vtext', VoiceCommand[i].value)}
            first == CHOOSE i \in hits : \A j \in hits : i <= j
        IN  /\ \A i \in 1..Len(vtext') : vtext'[i] \notin 65..90
            /\ \E text \in Texts :
                   /\ Len(text) = Len(vtext')
                   /\ \A i \in 1..Len(text) :
                          \/ text[i] = vtext'[i]
                          \/ text[i] \in 65..90 /\ vtext'[i] = text[i] + 32
            /\ <<VoiceCommand[1].value, VoiceCommand[2].value,
                 VoiceCommand[3].value, VoiceCommand[4].value,
                 VoiceCommand[5].value>>
                 = << <<101, 121, 101>>, <<108, 105, 112, 115>>,
                      <<102, 97, 99, 101>>,
                      <<122, 111, 111, 109, 32, 111, 117, 116>>,
                      <<102, 111, 99, 117, 115>> >>
            /\ IF hits = {}
               THEN /\ vsubmitted' = <<>>
                    /\ task_queue' = task_queue
                    /\ unfinished_tasks' = unfinished_tasks
               ELSE /\ vsubmitted' = <<VoiceCommand[first].name>>
                    /\ Len(task_queue') = Len(task_queue) + 1
                    /\ unfinished_tasks' = unfinished_tasks + 1
                    /\ \E k \in 1..Len(task_queue') :
                           /\ task_queue'[k].sid = nput'
                           /\ task_queue'[k].func
                                = CommandFunc(VoiceCommand[first].name)
                           /\ \A j \in 1..Len(task_queue') :
                                  j # k => \E m \in 1..Len(task_queue) :
                                               task_queue[m] = task_queue'[j]
      ]_vars

\* "face and lips" was heard: both keywords are in it, and the command
\* submitted is LIPS, which comes first among the bindings
C28_Witness ==
    /\ vtext = <<102, 97, 99, 101, 32, 97, 110, 100, 32, 108, 105, 112, 115>>
    /\ vsubmitted = <<"LIPS">>
    /\ \E k \in 1..Len(task_queue) : task_queue[k].func = "cmd_LIPS"

IsCommand(task) == task.func \in ZoomFuncs \cup {"cmd_FOCUS"}

\* C29: when a voice command and a focus update are both in the queue, the
\* entry the dispatcher takes is the focus update.
C29_FocusBeforeCommand ==
    [][ ( /\ DequeueStep
          /\ \E i \in 1..Len(task_queue) : IsCommand(task_queue[i])
          /\ \E i \in 1..Len(task_queue) :
                 task_queue[i].func = "focus_update" )
        => cur'.func = "focus_update" ]_vars

\* The sensor loop schedules a focus update
ScheduleStep == spc = "schedule" /\ spc' # "schedule"

WriteFailStep == write_failures' > write_failures

\* C31: a call of set_controls that raises changes nothing of the controller
\* and leaves the loop inside its with block, which it then leaves, releasing
\* the lock, for the wait of the next tick; every tick with a target, the one
\* after a failure too, goes on to call set_controls with the crop the
\* controller holds, and a call that returns has written that crop.
C31_WriteFailureContained ==
    [][ /\ WriteFailStep =>
               /\ pc'["crop"] = "release"
               /\ lock' = "crop"
               /\ current_crop' = current_crop
               /\ target_crop' = target_crop
               /\ ScalerCrop' = ScalerCrop
        /\ (pc["crop"] = "release" /\ pc'["crop"] # "release") =>
               /\ pc'["crop"] = "wait"
               /\ lock' = "free"
        /\ (TickStep /\ target_crop # None) =>
               /\ pc'["crop"] = "emit"
               /\ current_crop' # None
               /\ crop_settings' = current_crop'
        /\ (EmitStep /\ ~WriteFailStep) =>
               ScalerCrop' = convert_to_sensor_coordinates(current_crop)
      ]_vars

\* The first write failed, the second tick wrote the crop the controller
\* holds, and the loop waits for its third tick with the lock free
C31_Witness ==
    /\ write_failures = 1
    /\ nticks = 2
    /\ pc["crop"] = "wait"
    /\ lock = "free"
    /\ ScalerCrop # None
    /\ ScalerCrop = convert_to_sensor_coordinates(current_crop)

\* A FaceData whose coordinates are all in [0, 1] and that has four landmarks
ValidFace(f) ==
    /\ \A i \in 1..4 : f.bbox[i] >= 0 /\ f.bbox[i] <= UNIT
    /\ Len(f.landmarks) = 4
    /\ \A i \in 1..Len(f.landmarks) :
           /\ f.landmarks[i][1] >= 0 /\ f.landmarks[i][1] <= UNIT
           /\ f.landmarks[i][2] >= 0 /\ f.landmarks[i][2] <= UNIT

\* C32: the FaceData process_frame produced, the FaceData held as
\* current_face_data and the FaceData get_current_face_data returned have
\* every coordinate of the bounding box and of the landmarks in [0, 1] and
\* exactly four landmarks.
C32_FaceDataValid ==
    \A f \in {loop_face, current_face_data, got_face} :
        f # NoFaceData => ValidFace(f)

\* The detection thread smooths, and a caller gives a face to
\* update_target_crop
FaceSmoothStep == fpc = "smooth" /\ fpc' = "hand"
HandStep == handed' # handed \/ (fpc = "hand" /\ fpc' = "loop")

\* C33: the first detection becomes current_face_data as it is, a later one
\* replaces every coordinate by alpha * new + (1 - alpha) * current, and the
\* FaceData given to update_target_crop is the current, smoothed one.
C33_SmoothedBeforeConsumers ==
    [][ /\ (FaceSmoothStep /\ current_face_data = NoFaceData) =>
               current_face_data' = loop_face
        /\ (FaceSmoothStep /\ current_face_data # NoFaceData) =>
               /\ \A i \in 1..4 :
                      10 * current_face_data'.bbox[i]
                        = 4 * loop_face.bbox[i] + 6 * current_face_data.bbox[i]
               /\ \A i \in 1..Len(loop_face.landmarks) : \A k \in 1..2 :
                      10 * current_face_data'.landmarks[i][k]
                        = 4 * loop_face.landmarks[i][k]
                            + 6 * current_face_data.landmarks[i][k]
        /\ HandStep => handed' = current_face_data'
      ]_vars

\* C34: once the controller has written the hardware crop of a face and the
\* display has cut its software crop for the same face and zoom level, the
\* width of the hardware crop as a fraction of the sensor width is strictly
\* larger than the width of the software crop as a fraction of the frame
\* width.
C34_HardwareCropLarger ==
    (ScalerCrop # None /\ sw_crop # <<>>) =>
        ScalerCrop[3] * sw_crop[2] > sw_crop[1] * sensor_width

\* A call of _should_update, and the loop storing the time of an update
ShouldStep == Len(should_ret') > Len(should_ret)
StampStep == tpc = "update" /\ tpc' = "top"

C36_AdoptsNewZoom ==
    [][(TickStep /\ snap_pending /\ target_crop # None) =>
           \E f \in Faces : current_crop' = TargetCropFor(f, current_zoom)]_vars

\* A step of _sensor_loop through its statistics check, where
\* _print_performance_stats calls get_current_focus
StatsStep == spc = "stats" /\ spc' = "while"

\* C37: get_current_focus is a pure query: the call made by the statistics
\* printer leaves focus_history as it was.
C37_GetFocusPure == [][StatsStep => focus_history' = focus_history]_vars

\* The history before a call ends with four copies of the raw focus of the
\* distance that the call maps: the distance has been constant
ConstantDistanceStep ==
    /\ MapStep
    /\ Len(focus_history) >= 4
    /\ \A i \in (Len(focus_history) - 3)..Len(focus_history) :
           focus_history[i] = raw_focus(map_arg')

\* C38 as stated: from the fifth consecutive sample of one distance on, the
\* smoothed focus is exactly the raw calibrated focus of that distance.
C38_ExactlyRaw ==
    [][ConstantDistanceStep => focus_ret' = raw_focus(map_arg')]_vars

\* C38: from the fifth consecutive sample of one distance on, the history
\* holds five copies of the raw calibrated focus of that distance and the
\* smoothed focus differs from it by the rounding of the five products at
\* most, on that sample and on every later one.
C38_RawToRounding ==
    [][ConstantDistanceStep =>
          /\ Len(focus_history') = history_maxlen
          /\ \A i \in 1..history_maxlen :
                 focus_history'[i] = raw_focus(map_arg')
          /\ 2 * Abs(focus_ret' - raw_focus(map_arg')) <= history_maxlen
       ]_vars

C38_Witness ==
    /\ map_calls_left = 0
    /\ Len(focus_history) = history_maxlen
    /\ \A i \in 1..history_maxlen : focus_history[i] = raw_focus(map_arg)
    /\ focus_ret # raw_focus(map_arg)

\* C39: under every interleaving of add_frame and clear, a buffer whose
\* queue holds a frame has a latest frame, so that get_latest_frame returns
\* a frame and not None.
C39_QueuedHasLatest == size > 0 => latest_frame # None

\* C40: when main has printed "Shutdown complete", the running flags of the
\* crop controller and of the task scheduler are False, and from then on no
\* crop is given to the camera.
C40_AllStopped ==
    /\ [](mpc = "complete" => (~crop_running /\ ~running))
    /\ [][mpc = "complete" => ~EmitStep]_vars

====
